---- MODULE Spec2Model ----
(***************************************************************************)
(* Model of the geospatial analysis core of AtividadeOSPA:                 *)
(*   - the localStorage cache of composables/useCache.ts,                  *)
(*   - the distance -> premium model of useIsochroneAnalysis,              *)
(*   - the valuation buffer generator of useValuationBuffers,              *)
(*   - the area coverage estimator analyzeIsochrone,                       *)
(*   - the nearest-boundary index of the map,                              *)
(*   - the parcel evaluator useParcelAnalysis,                             *)
(*   - the start-up of the application and the events of the user.         *)
(* Each part has its own specification over the shared variable list; the  *)
(* variables of the parts it does not exercise stay at their initial       *)
(* value.                                                                  *)
(*                                                                         *)
(* Numbers: times are milliseconds relative to the page load (now = 0 at   *)
(* load, entries of earlier sessions have negative timestamps).  Distances *)
(* are hundredths of a mile and premiums hundredths of a percent, so that  *)
(* every value of the premium table and of its interpolation on the grid   *)
(* is an exact integer (the decimal value, without binary rounding).       *)
(***************************************************************************)
EXTENDS Integers, Sequences, FiniteSets, TLC

VARIABLES
    \* ---- cache store (useCache.ts) ----
    now,          \* Date.now()
    store,        \* localStorage: key -> raw stored text
    hits,         \* cacheHits, one ref per useCache() handle
    misses,       \* cacheMisses, one ref per useCache() handle
    getCalls,     \* history: number of get calls made through each handle
    lastStored,   \* history: what the last storing set wrote under each key
    lastOp,       \* history: the last cache operation and what it returned
    ticks,        \* history: number of clock steps taken
    ops,          \* history: number of cache operations made
    \* ---- distance -> premium model (useCommunityAreas.ts) ----
    d1, d2,       \* two distances, hundredths of a mile
    p1, p2,       \* their premiums, hundredths of a percent
    ppc,          \* "input" before estimatePremium ran, "done" after
    \* ---- valuation buffers (useParks.ts) ----
    parksIn,      \* the park list handed to the generator
    buffers,      \* buffers.value
    bufLoading,   \* loading.value of useValuationBuffers
    genResult,    \* history: result of the last generateParkBuffers call
    bufOp,        \* history: the last generator operation
    \* ---- coverage estimator (useCommunityAreas.ts, analyzeIsochrone) ----
    isoLoading,   \* loading.value of useIsochroneAnalysis
    isoOp,        \* history: the last analyzeIsochrone call and what it did
    isoCalls,     \* history: number of analyzeIsochrone calls made
    isoPrev,      \* history: the call before the last
    \* ---- nearest-boundary index (PopupAnalysis.vue) ----
    indexParks,             \* props.parks as the map component sees it
    parkBoundaryIndex,      \* the index entries
    parkBoundaryIndexCount, \* the park count the index was built for
    indexOp,      \* history: the last index operation and what it did
    \* ---- parcel evaluator (useMapLayers.ts, useParcelAnalysis) ----
    parcelLoading,    \* loading.value of useParcelAnalysis
    currentAnalysis,  \* currentAnalysis.value
    parcelError,      \* error.value
    inFlight,         \* the analyzeParcel calls suspended on their parcel fetch
    started,          \* history: number of analyzeParcel calls started
    parcelOp,         \* history: the last step of the evaluator
    latest,           \* history: what the most recently started call came to
    \* ---- application start-up and user events (App.vue, the map) ----
    appPc,            \* where onMounted stands: "validating", "loading", "done"
    parksFetch,       \* the fetch of loadParks: "idle", "pending", "settled"
    areasFetch,       \* the fetch of loadCommunityAreas, likewise
    appParks,         \* parks.value
    communityAreas,   \* communityAreas.value
    selectedArea,     \* selectedArea.value
    layers,           \* visible of each layer of useMapLayers
    mapReady,         \* the map has fired 'load'
    mapLayers,        \* the source and layers of the community areas are on the map
    criticalStatesComputed,
    criticalComputationInProgress,
    criticalI,        \* the index the loop of ensureCriticalAreaStates resumes at
    mapStats,         \* cacheHits, cacheMisses of the map's estimator
    events,           \* user events so far
    isoRuns,          \* history: the calls of analyzeIsochrone
    generatedAt,       \* history: the loads when generateAllBuffers was called
    areasLoading, \* useCommunityAreas: loading.value
    areasError,   \* useCommunityAreas: error.value, JsNull or the Error's name
    areasFetches, \* history: calls of fetchCommunityAreas made
    areasOp,      \* history: how loadCommunityAreas went
    critical,     \* the feature state 'critical' of each community area on the map
    criticalOutside, \* history: lowPercentage the loop got for each area
    activeLoops   \* history: loops of ensureCriticalAreaStates begun and not ended

cacheVars   == <<now, store, hits, misses, getCalls, lastStored, lastOp, ticks, ops>>
premiumVars == <<d1, d2, p1, p2, ppc>>
bufferVars  == <<parksIn, buffers, bufLoading, genResult, bufOp>>
isoVars     == <<isoLoading, isoOp, isoCalls, isoPrev>>
indexVars   == <<indexParks, parkBoundaryIndex, parkBoundaryIndexCount, indexOp>>
parcelVars  == <<parcelLoading, currentAnalysis, parcelError, inFlight, started, parcelOp,
                 latest>>
appVars     == <<appPc, parksFetch, areasFetch, appParks, communityAreas, selectedArea,
                 layers, mapReady, mapLayers, criticalStatesComputed,
                 criticalComputationInProgress, criticalI, mapStats, events, isoRuns,
                 generatedAt, areasLoading, areasError, areasFetches, areasOp,
                 critical, criticalOutside, activeLoops>>
criticalState == <<critical, criticalOutside, activeLoops>>
areasState  == <<areasLoading, areasError, areasFetches, areasOp>>
analysisVars == <<isoVars, indexVars, parcelVars, appVars>>
vars        == <<cacheVars, premiumVars, bufferVars, analysisVars>>

----------------------------------------------------------------------------
(* Bounds of the model                                                     *)

MaxTicks == 2    \* clock steps of 1 ms
MaxOps   == 2    \* cache operations (get, set, remove, clear, clearExpired)
MaxDistance == 110   \* distances up to 1.10 miles, in steps of 0.01 mile
BelowZero   == 10    \* and down to -0.10 mile
FarDistance == 500   \* and one distance far out, 5 miles
MaxParks    == 2     \* parks in a batch
MaxCalls    == 2     \* analyzeIsochrone calls
GridPoints  == 16    \* sample points of the masked grid of the largest area
MaxBufferCount == 2  \* buffers in a list handed to analyzeIsochrone
MaxClicks   == 2     \* analyzeParcel calls started
MaxEvents   == 3     \* user events (layer toggles, area clicks, cleared selections)

----------------------------------------------------------------------------
(* Cache store: constants and data                                         *)

DAY_MS == 24 * 60 * 60 * 1000

\* the optional ttl argument of set: left out (undefined) or a number
NoTtl       == [given |-> FALSE, value |-> 0]
TtlOf(n)    == [given |-> TRUE, value |-> n]
TtlArgs     == {NoTtl, TtlOf(1)}
Truthy(ttl) == ttl.given /\ ttl.value # 0

\* DEFAULT_TTLS[namespace]; 0 stands for "no such property" (undefined)
DEFAULT_TTLS(namespace) ==
    CASE namespace = "COMMUNITY_AREAS" -> 7 * DAY_MS
      [] namespace = "PARKS"           -> 7 * DAY_MS
      [] namespace = "WATERWAYS"       -> 7 * DAY_MS
      [] namespace = "PROPERTY_DATA"   -> DAY_MS
      [] namespace = "GEOMETRIC_CALC"  -> DAY_MS
      [] OTHER                         -> 0

\* the consumers that each call useCache()
Handles == {"useParks", "useCommunityAreas", "useIsochroneAnalysis"}

\* the namespaces the composables store under
Namespaces == {"COMMUNITY_AREAS", "GEOMETRIC_CALC"}
Ids        == {"all"}

AppPrefix == "chicago-parks"

generateKey(namespace, identifier) == <<AppPrefix, namespace, identifier>>

\* area_numbe of the community areas of the model
AreaNumbers == {"8", "76", "9", "47"}

\* a key that names the area alone
cacheKeyOfArea(area_numbe, length) == "bufcov-" \o area_numbe \o "-0"

\* line 242 of useCommunityAreas.ts: `bufcov-${area.area_numbe}-${parkBuffers.length}`
cacheKey(area_numbe, length) == "bufcov-" \o area_numbe \o "-" \o ToString(length)

CoverageIds == {cacheKey(a, n) : a \in AreaNumbers, n \in 0 .. MaxBufferCount}

AppKeys == {generateKey(ns, id) : ns \in Namespaces, id \in Ids}
           \cup {generateKey("GEOMETRIC_CALC", id) : id \in CoverageIds}

\* the locale key the i18n composable keeps in the same localStorage
LocaleKey == <<"ospa.locale">>

AllKeys == AppKeys \cup {LocaleKey}

startsWithAppPrefix(key) == key[1] = AppPrefix

\* JavaScript values handed to set as data; "NaN" is not JSON-serializable
JsNull     == "null"
DataValues == {"areasA", "NaN"}

\* JSON.stringify followed by JSON.parse of a data value
JsonRoundTrip(v) == IF v = "NaN" THEN JsNull ELSE v

Serializable(v) == JsonRoundTrip(v) = v

\* Raw texts a localStorage key can hold
Raw(kind, data, timestamp, ttl) ==
    [kind |-> kind, data |-> data, timestamp |-> timestamp, ttl |-> ttl]

NoItem      == Raw("none", "", 0, 0)          \* getItem returns null
EmptyText   == Raw("empty", "", 0, 0)         \* the text ""
Unparseable == Raw("garbage", "", 0, 0)       \* a text JSON.parse rejects
NullText    == Raw("jsonnull", "", 0, 0)      \* the text "null"
ObjectText  == Raw("object", "", 0, 0)        \* the text "{}"
LocaleText  == Raw("locale", "pt-BR", 0, 0)   \* value of the locale key

\* JSON.stringify({data, timestamp, ttl})
EntryText(data, timestamp, ttl) == Raw("entry", JsonRoundTrip(data), timestamp, ttl)

IsEntry(raw) == raw.kind = "entry"

Malformed == {EmptyText, Unparseable, NullText, ObjectText}

----------------------------------------------------------------------------
(* Cache store: the functions of useCache()                                *)

setItem(st, key, raw) == [st EXCEPT ![key] = raw]
removeItem(st, key)   == [st EXCEPT ![key] = NoItem]

\* !cached : getItem gave null, or the stored text is ""
Falsy(raw) == raw.kind \in {"none", "empty"}

\* JSON.parse(cached) throws a SyntaxError
ParseThrows(raw) == raw.kind \in {"garbage", "empty", "locale"}

\* isValid(entry) throws a TypeError: entry is null, entry.timestamp cannot be read
isValidThrows(raw) == raw.kind = "jsonnull"

\* isValid with the boundary taken as still valid (<= for <)
isValidInclusive(entry, t) == IsEntry(entry) /\ t - entry.timestamp <= entry.ttl

\* now - entry.timestamp < entry.ttl; with the fields missing (the text "{}")
\* the comparison is NaN < undefined, which is false
isValid(entry, t) == IsEntry(entry) /\ t - entry.timestamp < entry.ttl

\* get whose catch block forgets cacheMisses.value++
getUncountedCatch(st, key, t) ==
    LET cached == st[key] IN
    IF Falsy(cached)
    THEN [store |-> st, hits |-> 0, misses |-> 1, data |-> JsNull, path |-> "absent"]
    ELSE IF ParseThrows(cached) \/ isValidThrows(cached)
    THEN [store |-> st, hits |-> 0, misses |-> 0, data |-> JsNull, path |-> "caught"]
    ELSE IF ~(IsEntry(cached) /\ t - cached.timestamp < cached.ttl)
    THEN [store |-> removeItem(st, key), hits |-> 0, misses |-> 1, data |-> JsNull,
          path |-> "expired"]
    ELSE [store |-> st, hits |-> 1, misses |-> 0, data |-> cached.data, path |-> "valid"]

\* get, lines 60-87: the store after the call, the increments of cacheHits and
\* cacheMisses, the value returned (JsNull for null) and the branch taken
get(st, key, t) ==
    LET cached == st[key] IN
    IF Falsy(cached)
    THEN [store |-> st, hits |-> 0, misses |-> 1, data |-> JsNull, path |-> "absent"]
    ELSE IF ParseThrows(cached) \/ isValidThrows(cached)
    THEN [store |-> st, hits |-> 0, misses |-> 1, data |-> JsNull, path |-> "caught"]
    ELSE IF ~isValid(cached, t)
    THEN [store |-> removeItem(st, key), hits |-> 0, misses |-> 1, data |-> JsNull,
          path |-> "expired"]
    ELSE [store |-> st, hits |-> 1, misses |-> 0, data |-> cached.data, path |-> "valid"]

\* one key of clearExpired's forEach, lines 162-177
sweepKey(st, key, t) ==
    LET cached == st[key] IN
    IF Falsy(cached) THEN cached
    ELSE IF ParseThrows(cached) \/ isValidThrows(cached) THEN NoItem
    ELSE IF ~isValid(cached, t) THEN NoItem
    ELSE cached

\* clearExpired that removes every app entry, expired or not
clearExpiredEverything(st, t) ==
    [key \in DOMAIN st |-> IF startsWithAppPrefix(key) THEN NoItem ELSE st[key]]

\* clearExpired, lines 157-180
clearExpired(st, t) ==
    [key \in DOMAIN st |-> IF startsWithAppPrefix(key) THEN sweepKey(st, key, t) ELSE st[key]]

\* clear, lines 146-152
clear(st) ==
    [key \in DOMAIN st |-> IF startsWithAppPrefix(key) THEN NoItem ELSE st[key]]

\* line 107: ttl || DEFAULT_TTLS[namespace] || DEFAULT_TTLS.GEOMETRIC_CALC
finalTtl(namespace, ttl) ==
    IF Truthy(ttl) THEN ttl.value
    ELSE IF DEFAULT_TTLS(namespace) # 0 THEN DEFAULT_TTLS(namespace)
    ELSE DEFAULT_TTLS("GEOMETRIC_CALC")

\* line 125: ttl || DEFAULT_TTLS.GEOMETRIC_CALC
retryTtl(namespace, ttl) ==
    IF Truthy(ttl) THEN ttl.value ELSE DEFAULT_TTLS("GEOMETRIC_CALC")

\* set, lines 97-132.  fail1, fail2: whether localStorage.setItem throws
\* (quota exceeded) at the first write and at the retry.
set(st, namespace, identifier, data, ttl, t, fail1, fail2) ==
    LET key   == generateKey(namespace, identifier)
        swept == clearExpired(st, t)
    IN  IF ~fail1
        THEN [store |-> setItem(st, key, EntryText(data, t, finalTtl(namespace, ttl))),
              writes |-> 1, sweeps |-> 0, stored |-> TRUE, threw |-> FALSE]
        ELSE IF ~fail2
        THEN [store |-> setItem(swept, key, EntryText(data, t, retryTtl(namespace, ttl))),
              writes |-> 2, sweeps |-> 1, stored |-> TRUE, threw |-> FALSE]
        ELSE [store |-> swept,
              writes |-> 2, sweeps |-> 1, stored |-> FALSE, threw |-> FALSE]

----------------------------------------------------------------------------
(* Cache store: state machine                                              *)

\* what a page load can find in localStorage under an app key: nothing, a
\* damaged text, or an entry of an earlier session: one with days to live,
\* one with a single millisecond to live, one that has just expired
InitRaws ==
    Malformed \cup {NoItem,
                    EntryText("areasB", -1, 7 * DAY_MS),
                    EntryText("areasB", 1 - DAY_MS, DAY_MS),
                    EntryText("areasB", -DAY_MS, DAY_MS)}

\* at page load: the locale key, and whatever an earlier session left under
\* the one key that is the same in every session, COMMUNITY_AREAS:all
InitStores ==
    {[k \in AllKeys |-> IF k = LocaleKey THEN LocaleText
                        ELSE IF k = generateKey("COMMUNITY_AREAS", "all") THEN raw
                        ELSE NoItem] : raw \in InitRaws}

NotStored == [valid |-> FALSE, data |-> "", timestamp |-> 0, ttl |-> 0]

Sum(f) == f["useParks"] + f["useCommunityAreas"] + f["useIsochroneAnalysis"]

\* the other app keys whose valid entry an operation on key removed or changed
LostValid(before, after, key, t) ==
    {k \in AppKeys \ {key} : isValid(before[k], t) /\ after[k] # before[k]}

OpRecord(op, key) ==
    [op |-> op, handle |-> "", key |-> key, at |-> now, pre |-> store[key],
     data |-> JsNull, path |-> "", namespace |-> "", ttl |-> NoTtl,
     firstFailed |-> FALSE, retryFailed |-> FALSE,
     writes |-> 0, sweeps |-> 0, stored |-> FALSE, threw |-> FALSE,
     lostValid |-> {}, hitsBefore |-> hits, missesBefore |-> misses,
     statHits |-> 0, statMisses |-> 0]

InitCache ==
    /\ now = 0
    /\ store \in InitStores
    /\ hits = [h \in Handles |-> 0]
    /\ misses = [h \in Handles |-> 0]
    /\ getCalls = [h \in Handles |-> 0]
    /\ lastStored = [k \in AppKeys |-> NotStored]
    /\ lastOp = OpRecord("load", LocaleKey)
    /\ ticks = 0
    /\ ops = 0

\* Date.now() advances by a millisecond
Tick ==
    /\ ticks < MaxTicks
    /\ now' = now + 1
    /\ ticks' = ticks + 1
    /\ UNCHANGED <<store, hits, misses, getCalls, lastStored, lastOp, ops, premiumVars, bufferVars, analysisVars>>

\* cache.get(namespace, identifier) through the handle of one consumer
Get(handle, namespace, identifier) ==
    LET key == generateKey(namespace, identifier)
        r   == get(store, key, now)
    IN  /\ ops < MaxOps
        /\ ops' = ops + 1
        /\ store' = r.store
        /\ hits' = [hits EXCEPT ![handle] = @ + r.hits]
        /\ misses' = [misses EXCEPT ![handle] = @ + r.misses]
        /\ getCalls' = [getCalls EXCEPT ![handle] = @ + 1]
        /\ lastOp' = [OpRecord("get", key) EXCEPT
                        !.handle = handle, !.data = r.data,
                        !.path = r.path, !.namespace = namespace,
                        !.lostValid = LostValid(store, r.store, key, now)]
        /\ UNCHANGED <<now, lastStored, ticks, premiumVars, bufferVars, analysisVars>>

\* cache.set(namespace, identifier, data, ttl?)
Set(namespace, identifier, data, ttl, fail1, fail2) ==
    LET key == generateKey(namespace, identifier)
        r   == set(store, namespace, identifier, data, ttl, now, fail1, fail2)
    IN  /\ ops < MaxOps
        /\ ops' = ops + 1
        /\ store' = r.store
        /\ lastStored' =
             IF r.stored
             THEN [lastStored EXCEPT ![key] =
                     [valid |-> TRUE, data |-> data, timestamp |-> now,
                      ttl |-> r.store[key].ttl]]
             ELSE lastStored
        /\ lastOp' = [OpRecord("set", key) EXCEPT
                        !.data = data, !.namespace = namespace, !.ttl = ttl,
                        !.firstFailed = fail1, !.retryFailed = (fail1 /\ fail2),
                        !.writes = r.writes, !.sweeps = r.sweeps,
                        !.stored = r.stored, !.threw = r.threw,
                        !.lostValid = LostValid(store, r.store, key, now)]
        /\ UNCHANGED <<now, hits, misses, getCalls, ticks, premiumVars, bufferVars, analysisVars>>

\* cache.remove(namespace, identifier), lines 137-141
Remove(namespace, identifier) ==
    LET key == generateKey(namespace, identifier) IN
    /\ ops < MaxOps
    /\ ops' = ops + 1
    /\ store' = removeItem(store, key)
    /\ lastStored' = [lastStored EXCEPT ![key] = NotStored]
    /\ lastOp' = [OpRecord("remove", key) EXCEPT !.namespace = namespace]
    /\ UNCHANGED <<now, hits, misses, getCalls, ticks, premiumVars, bufferVars, analysisVars>>

\* cache.clear()
Clear ==
    /\ ops < MaxOps
    /\ ops' = ops + 1
    /\ store' = clear(store)
    /\ lastStored' = [k \in AppKeys |-> NotStored]
    /\ lastOp' = OpRecord("clear", LocaleKey)
    /\ UNCHANGED <<now, hits, misses, getCalls, ticks, premiumVars, bufferVars, analysisVars>>

\* cache.clearExpired()
ClearExpired ==
    /\ ops < MaxOps
    /\ ops' = ops + 1
    /\ store' = clearExpired(store, now)
    /\ lastOp' = [OpRecord("clearExpired", LocaleKey) EXCEPT
                    !.lostValid = LostValid(store, clearExpired(store, now), LocaleKey, now)]
    /\ UNCHANGED <<now, hits, misses, getCalls, lastStored, ticks, premiumVars, bufferVars, analysisVars>>

\* getStats, lines 185-204: the counters it reports are the two refs of the
\* useCache() call that made the handle
getStats(handle) == [hits |-> hits[handle], misses |-> misses[handle]]

\* cache.getStats() through one handle
GetStats(handle) ==
    /\ lastOp' = [OpRecord("getStats", LocaleKey) EXCEPT
                    !.handle = handle,
                    !.statHits = getStats(handle).hits,
                    !.statMisses = getStats(handle).misses]
    /\ UNCHANGED <<now, store, hits, misses, getCalls, lastStored, ticks, ops, premiumVars, bufferVars, analysisVars>>

\* the store used through one handle, with every argument of set
NextCache ==
    \/ Tick
    \/ \E ns \in Namespaces, id \in Ids : Get("useCommunityAreas", ns, id)
    \/ \E ns \in Namespaces, id \in Ids, data \in DataValues, ttl \in TtlArgs,
          fail1 \in BOOLEAN, fail2 \in BOOLEAN :
            Set(ns, id, data, ttl, fail1, fail2)
    \/ ClearExpired

\* every operation through the handles of the three consumers, each consumer
\* storing with the default ttl
NextCacheStats ==
    \/ Tick
    \/ \E h \in Handles, ns \in Namespaces, id \in Ids : Get(h, ns, id)
    \/ \E ns \in Namespaces, id \in Ids, fail1 \in BOOLEAN, fail2 \in BOOLEAN :
            Set(ns, id, "areasA", NoTtl, fail1, fail2)
    \/ ClearExpired
    \/ \E ns \in Namespaces, id \in Ids : Remove(ns, id)
    \/ Clear
    \/ \E h \in Handles : GetStats(h)

----------------------------------------------------------------------------
(* Distance -> premium model (useIsochroneAnalysis)                        *)

\* lines 141-148, miles in hundredths of a mile, premium in hundredths of a percent
DISTANCE_PREMIUM_TABLE ==
    << [miles |-> 20, premium |-> 2230],
       [miles |-> 30, premium |-> 1830],
       [miles |-> 40, premium |-> 1460],
       [miles |-> 50, premium |-> 1120],
       [miles |-> 60, premium |-> 790],
       [miles |-> 80, premium |-> 210] >>

Max(a, b) == IF a >= b THEN a ELSE b

\* interpolate with the slope added instead of subtracted
interpolateRising(distanceMiles, current, next) ==
    current.premium +
      ((distanceMiles - current.miles) * (current.premium - next.premium))
         \div (next.miles - current.miles)

\* lines 221-222: ratio = (d - current.miles) / (next.miles - current.miles);
\* current.premium - ratio * (current.premium - next.premium).  The product is
\* taken before the division, which is exact for every distance of the grid.
interpolate(distanceMiles, current, next) ==
    current.premium -
      ((distanceMiles - current.miles) * (current.premium - next.premium))
         \div (next.miles - current.miles)

\* the for loop of lines 216-224 from index i on, and the final return 0
RECURSIVE interpolateFrom(_, _)
interpolateFrom(distanceMiles, i) ==
    IF i > Len(DISTANCE_PREMIUM_TABLE) - 1 THEN 0
    ELSE LET current == DISTANCE_PREMIUM_TABLE[i]
             next    == DISTANCE_PREMIUM_TABLE[i + 1]
         IN  IF distanceMiles >= current.miles /\ distanceMiles <= next.miles
             THEN interpolate(distanceMiles, current, next)
             ELSE interpolateFrom(distanceMiles, i + 1)

\* extrapolate without the floor at 0
extrapolateUnfloored(distanceMiles, lastEntry) ==
    lastEntry.premium - (distanceMiles - lastEntry.miles) * 10

\* line 212: the decay of 10 percent per mile beyond the table, floored at 0
\* (10 hundredths of a percent per hundredth of a mile)
extrapolate(distanceMiles, lastEntry) ==
    Max(0, lastEntry.premium - (distanceMiles - lastEntry.miles) * 10)

\* estimatePremium, lines 203-227
estimatePremium(distanceMiles) ==
    LET lastEntry == DISTANCE_PREMIUM_TABLE[Len(DISTANCE_PREMIUM_TABLE)] IN
    IF distanceMiles <= DISTANCE_PREMIUM_TABLE[1].miles
    THEN DISTANCE_PREMIUM_TABLE[1].premium
    ELSE IF distanceMiles >= lastEntry.miles
    THEN extrapolate(distanceMiles, lastEntry)
    ELSE interpolateFrom(distanceMiles, 1)

Distances == ((0 - BelowZero) .. MaxDistance) \cup {FarDistance}

InitPremium ==
    /\ d1 \in Distances
    /\ d2 \in Distances
    /\ d1 <= d2
    /\ p1 = 0 /\ p2 = 0
    /\ ppc = "input"

\* estimatePremium is called for both distances
Estimate ==
    /\ ppc = "input"
    /\ p1' = estimatePremium(d1)
    /\ p2' = estimatePremium(d2)
    /\ ppc' = "done"
    /\ UNCHANGED <<d1, d2, cacheVars, bufferVars, analysisVars>>

NextPremium == Estimate

----------------------------------------------------------------------------
(* Valuation buffer generator (useValuationBuffers)                        *)

\* lines 172-178, in the units of the premium table
VALUATION_CONFIG == [distance |-> 20, premium |-> 2230, label |-> "0-0.2 mi"]

\* A park's the_geom.  present: the_geom is there (not null, not undefined);
\* type: its type, "" when the field is missing; hasCoordinates: coordinates is
\* there; rings: for a Polygon the number of positions of each ring; polys: for
\* a MultiPolygon the same for each polygon; turf: what turf.buffer does with
\* the geometry: "ok" (a feature), "undefined" or "throws".
Geom(type, hasCoordinates, rings, polys, turf) ==
    [present |-> TRUE, type |-> type, hasCoordinates |-> hasCoordinates,
     rings |-> rings, polys |-> polys, turf |-> turf]

NoGeom == [present |-> FALSE, type |-> "", hasCoordinates |-> FALSE,
           rings |-> << >>, polys |-> << >>, turf |-> "throws"]

\* the geometries of the parks of a batch
BatchGeoms ==
    { NoGeom,
      Geom("Polygon", TRUE, <<5>>, << >>, "ok"),
      Geom("Polygon", TRUE, <<3>>, << >>, "ok"),
      Geom("Polygon", TRUE, <<4>>, << >>, "throws"),
      Geom("MultiPolygon", TRUE, << >>, << <<4>>, <<6, 4>> >>, "ok") }

\* every geometry a single park is tried with
ParkGeoms ==
    BatchGeoms \cup
    { Geom("Polygon", TRUE, << >>, << >>, "ok"),
      Geom("Polygon", TRUE, <<4, 3>>, << >>, "ok"),
      Geom("Polygon", TRUE, <<4>>, << >>, "undefined"),
      Geom("Polygon", FALSE, << >>, << >>, "throws"),
      Geom("", TRUE, <<5>>, << >>, "ok"),
      Geom("MultiPolygon", TRUE, << >>, << <<4>>, <<3>> >>, "ok"),
      Geom("MultiPolygon", TRUE, << >>, << << >>, <<5>> >>, "ok"),
      Geom("MultiPolygon", TRUE, << >>, << >>, "undefined"),
      Geom("MultiPolygon", TRUE, << >>, << <<5>> >>, "throws"),
      Geom("Point", TRUE, << >>, << >>, "ok"),
      Geom("LineString", TRUE, <<5>>, << >>, "ok") }

ParkNames == <<"Humboldt", "Lincoln", "Palmer", "Grant">>

Park(park_no, park_name, the_geom) ==
    [park_no |-> park_no, park_name |-> park_name, the_geom |-> the_geom]

\* Array.isArray(ring) && ring.length >= 4 for the first ring of a polygon
firstRingOk(rings) == Len(rings) >= 1 /\ rings[1] >= 4

\* isValidGeometry with some() for every() in the MultiPolygon branch
isValidGeometrySome(geometry) ==
    IF ~geometry.present \/ geometry.type = "" \/ ~geometry.hasCoordinates THEN FALSE
    ELSE IF geometry.type = "Polygon" THEN firstRingOk(geometry.rings)
    ELSE IF geometry.type = "MultiPolygon"
    THEN \E i \in 1 .. Len(geometry.polys) : firstRingOk(geometry.polys[i])
    ELSE FALSE

\* isValidGeometry, lines 202-217
isValidGeometry(geometry) ==
    IF ~geometry.present \/ geometry.type = "" \/ ~geometry.hasCoordinates THEN FALSE
    ELSE IF geometry.type = "Polygon" THEN firstRingOk(geometry.rings)
    ELSE IF geometry.type = "MultiPolygon"
    THEN \A i \in 1 .. Len(geometry.polys) : firstRingOk(geometry.polys[i])
    ELSE FALSE

\* the entry of lines 234-242
ValuationBuffer(park) ==
    [id |-> <<"park", park.park_no, "buffer">>,
     sourceType |-> "park",
     sourceId |-> park.park_no,
     sourceName |-> park.park_name,
     distanceZone |-> VALUATION_CONFIG.label,
     premium |-> VALUATION_CONFIG.premium,
     geometry |-> [bufferOf |-> park.the_geom, miles |-> VALUATION_CONFIG.distance]]

\* generateParkBuffers, lines 223-247
generateParkBuffers(park) ==
    IF ~park.the_geom.present \/ ~isValidGeometry(park.the_geom) THEN << >>
    ELSE IF park.the_geom.turf = "throws" THEN << >>
    ELSE IF park.the_geom.turf = "undefined" THEN << >>
    ELSE << ValuationBuffer(park) >>

\* the forEach of lines 254-259 from park i on, all being the list so far
RECURSIVE forEachPark(_, _, _)
forEachPark(parks, i, all) ==
    IF i > Len(parks) THEN all
    ELSE LET parkBuffers == generateParkBuffers(parks[i])
         IN  forEachPark(parks, i + 1,
                         IF Len(parkBuffers) # 0 THEN all \o parkBuffers ELSE all)

\* generateAllBuffers that pushes onto the buffers it already holds
generateAllBuffersAppending(parks, previous) ==
    [buffers |-> forEachPark(parks, 1, previous), loading |-> FALSE]

\* generateAllBuffers, lines 249-263: buffers.value and loading.value at the end
generateAllBuffers(parks, previous) ==
    [buffers |-> forEachPark(parks, 1, << >>), loading |-> FALSE]

\* the batches: park i of a batch has park_no i
ParkLists ==
    UNION { [1 .. n -> BatchGeoms] : n \in 0 .. MaxParks }

Batch(geoms) == [i \in 1 .. Len(geoms) |-> Park(i, ParkNames[((i - 1) % 4) + 1], geoms[i])]

NoPark == Park(0, "", NoGeom)

\* the last call: its name, the number of buffers held before it, its park
BufOp(op, prevLen, park) == [op |-> op, prevLen |-> prevLen, park |-> park]

InitBuffers ==
    /\ parksIn = << >>
    /\ buffers = << >>
    /\ bufLoading = FALSE
    /\ genResult = << >>
    /\ bufOp = BufOp("none", 0, NoPark)

\* generateParkBuffers(park) called for one park
GenerateParkBuffers(park) ==
    /\ genResult' = generateParkBuffers(park)
    /\ bufOp' = BufOp("generateParkBuffers", Len(buffers), park)
    /\ UNCHANGED <<parksIn, buffers, bufLoading, cacheVars, premiumVars, analysisVars>>

\* generateAllBuffers(parks) called for a batch
GenerateAllBuffers(parks) ==
    LET r == generateAllBuffers(parks, buffers) IN
    /\ buffers' = r.buffers
    /\ bufLoading' = r.loading
    /\ parksIn' = parks
    /\ bufOp' = BufOp("generateAllBuffers", Len(buffers), NoPark)
    /\ UNCHANGED <<genResult, cacheVars, premiumVars, analysisVars>>

NextBuffers ==
    \/ \E no \in {7, 8}, g \in ParkGeoms :
          GenerateParkBuffers(Park(no, ParkNames[no - 4], g))
    \/ \E geoms \in ParkLists : GenerateAllBuffers(Batch(geoms))

----------------------------------------------------------------------------
(* Area coverage estimator (useIsochroneAnalysis, analyzeIsochrone)        *)
(* Geometry is taken by what turf reports of it: a bounding box            *)
(* <<minLng, minLat, maxLng, maxLat>>, a planar area, the masked point     *)
(* grid of an area, the set of grid points a buffer polygon contains.      *)
(* A JavaScript result object is carried in the cache as its JSON text.    *)

\* the geometry of a community area
AreaGeom(planarArea, bbox, grid) ==
    [present |-> TRUE, planarArea |-> planarArea, bbox |-> bbox, grid |-> grid]

NoAreaGeom == [present |-> FALSE, planarArea |-> 0, bbox |-> <<0, 0, 0, 0>>, grid |-> << >>]

CommunityArea(area_numbe, the_geom) == [area_numbe |-> area_numbe, the_geom |-> the_geom]

\* the community areas: "8" a region whose masked grid has GridPoints points,
\* "76" a record without the_geom, "9" a geometry of planar area 0, "47" a
\* region too small for any grid point
CommunityAreas ==
    { CommunityArea("8", AreaGeom(GridPoints, <<1, 0, GridPoints, 1>>,
                                  [i \in 1 .. GridPoints |-> <<i, 0>>])),
      CommunityArea("76", NoAreaGeom),
      CommunityArea("9", AreaGeom(0, <<GridPoints + 9, 0, GridPoints + 9, 0>>, << >>)),
      CommunityArea("47", AreaGeom(1, <<GridPoints + 20, 0, GridPoints + 20, 1>>, << >>)) }

\* the geometry of a buffer: bboxThrows: turf.bbox throws on it; inside: the
\* grid points the polygon contains; pipThrows: booleanPointInPolygon throws
BufferGeom(bbox, inside) ==
    [bboxThrows |-> FALSE, bbox |-> bbox, inside |-> inside, pipThrows |-> FALSE]

CoverageBuffer(id, geometry) == [id |-> id, geometry |-> geometry]

\* a buffer over the whole of area "8" whose polygon holds its first k points
Near(k) == CoverageBuffer(<<"park", k, "buffer">>,
                          BufferGeom(<<1, 0, GridPoints, 1>>, {<<i, 0>> : i \in 1 .. k}))

\* a buffer around the two westmost points of area "8"
Tight == CoverageBuffer(<<"park", 101, "buffer">>,
                        BufferGeom(<<1, 0, 2, 1>>, {<<1, 0>>, <<2, 0>>}))

\* a buffer whose polygon holds the points of area "8" from the third on
Upper == CoverageBuffer(<<"park", 102, "buffer">>,
                        BufferGeom(<<3, 0, GridPoints, 1>>, {<<i, 0>> : i \in 3 .. GridPoints}))

\* a buffer to the north of area "8", away from every area, and one to the
\* east of area "8" that lies over area "47"
FarNorth == CoverageBuffer(<<"park", 103, "buffer">>, BufferGeom(<<1, 5, GridPoints, 6>>, {}))
East     == CoverageBuffer(<<"park", 104, "buffer">>,
                           BufferGeom(<<GridPoints + 5, 0, GridPoints + 50, 1>>, {}))

\* a buffer turf.bbox throws on, and one booleanPointInPolygon throws on
NoBbox == CoverageBuffer(<<"park", 105, "buffer">>,
                         [bboxThrows |-> TRUE, bbox |-> <<0, 0, 0, 0>>, inside |-> {},
                          pipThrows |-> FALSE])
NoPip  == CoverageBuffer(<<"park", 106, "buffer">>,
                         [bboxThrows |-> FALSE, bbox |-> <<1, 0, GridPoints, 1>>,
                          inside |-> {<<1, 0>>}, pipThrows |-> TRUE])

\* the buffer lists analyzeIsochrone is called with
CoverageBufferLists ==
    { << >> }
    \cup { <<b>> : b \in {Near(k) : k \in 0 .. GridPoints}
                         \cup {Tight, Upper, FarNorth, East, NoBbox, NoPip} }
    \cup { <<b1, b2>> : b1 \in {Tight, FarNorth, NoPip}, b2 \in {Upper, East, NoBbox} }

\* bboxesOverlap, lines 154-156
bboxesOverlap(a, b) == a[1] <= b[3] /\ a[3] >= b[1] /\ a[2] <= b[4] /\ a[4] >= b[2]

\* the loop of lines 264-272 from buffer i on
RECURSIVE filterCandidates(_, _, _, _)
filterCandidates(areaBbox, parkBuffers, i, candidates) ==
    IF i > Len(parkBuffers) THEN candidates
    ELSE LET b == parkBuffers[i] IN
         IF b.geometry.bboxThrows
         THEN filterCandidates(areaBbox, parkBuffers, i + 1, candidates)
         ELSE IF ~bboxesOverlap(areaBbox, b.geometry.bbox)
         THEN filterCandidates(areaBbox, parkBuffers, i + 1, candidates)
         ELSE filterCandidates(areaBbox, parkBuffers, i + 1,
                               Append(candidates,
                                      [geom |-> b.geometry, bbox |-> b.geometry.bbox]))

\* the loop of lines 308-319 for one point, from candidate j on: isInside
RECURSIVE pointInside(_, _, _)
pointInside(pt, candidates, j) ==
    IF j > Len(candidates) THEN FALSE
    ELSE LET c  == candidates[j]
             bb == c.bbox
         IN  IF pt[1] < bb[1] \/ pt[1] > bb[3] \/ pt[2] < bb[2] \/ pt[2] > bb[4]
             THEN pointInside(pt, candidates, j + 1)
             ELSE IF ~c.geom.pipThrows /\ pt \in c.geom.inside THEN TRUE
             ELSE pointInside(pt, candidates, j + 1)

\* the loop of lines 303-322 from point i on: insideCount
RECURSIVE countInside(_, _, _)
countInside(points, candidates, i) ==
    IF i > Len(points) THEN 0
    ELSE (IF pointInside(points[i], candidates, 1) THEN 1 ELSE 0)
         + countInside(points, candidates, i + 1)

Min(a, b) == IF a <= b THEN a ELSE b

\* (num / den).toFixed(1) for num >= 0, den > 0: rounded to the nearest tenth,
\* a tie going up
toFixed1(num, den) ==
    LET tenths == (20 * num + den) \div (2 * den)
    IN  ToString(tenths \div 10) \o "." \o ToString(tenths % 10)

IsoResult(high, low, avg) ==
    [highPercentage |-> high, mediumPercentage |-> "0.0",
     lowPercentage |-> low, avgPremium |-> avg]

\* the object of lines 275-280, 292-297 and 340-345
none == IsoResult("0.0", "100.0", "0.0")

\* lines 324-332 with the average taken as insidePct * 22.3
coverageResultUnscaled(insideCount, total) ==
    LET insideNum  == Max(0, Min(100 * total, insideCount * 100))
        outsideNum == Max(0, 100 * total - insideNum)
    IN  IsoResult(toFixed1(insideNum, total), toFixed1(outsideNum, total),
                  toFixed1(insideNum * 223, total * 10))

\* lines 324-332: insidePct = insideNum / total, outsidePct = outsideNum / total
coverageResult(insideCount, total) ==
    LET insideNum  == Max(0, Min(100 * total, insideCount * 100))
        outsideNum == Max(0, 100 * total - insideNum)
    IN  IsoResult(toFixed1(insideNum, total), toFixed1(outsideNum, total),
                  toFixed1(insideNum * 223, total * 1000))

\* JSON.stringify of a result object
stringify(result) ==
    "{" \o result.highPercentage \o "," \o result.mediumPercentage \o ","
        \o result.lowPercentage \o "," \o result.avgPremium \o "}"

\* the result objects a cache entry of this program can hold
StoredResults ==
    {none} \cup {coverageResult(ic, total) : ic \in 0 .. GridPoints + 1,
                                            total \in {GridPoints, GridPoints + 1}}

\* JSON.parse of the text of a result object
parse(text) == CHOOSE result \in StoredResults : stringify(result) = text

\* what a call of analyzeIsochrone did
IsoOutcome(path, result, loading, st, gets, wrote, gridCalls, pointsTested, candidates, insideCount, totalPoints) ==
    [path |-> path, result |-> result, loading |-> loading, threw |-> FALSE,
     store |-> st, hits |-> gets.hits, misses |-> gets.misses, wrote |-> wrote,
     gridCalls |-> gridCalls, pointsTested |-> pointsTested,
     candidates |-> candidates, insideCount |-> insideCount,
     totalPoints |-> totalPoints]

\* the catch block that leaves loading set
onErrorLoadingLeft(st, gets) ==
    IsoOutcome("caught", none, TRUE, st, gets, FALSE, 0, 0, 0, 0, 0)

\* the catch block, lines 337-346
onError(st, gets) ==
    IsoOutcome("caught", none, FALSE, st, gets, FALSE, 0, 0, 0, 0, 0)

\* the branch that answers without writing its fallback
onNoCandidatesUncached(st, stored, gets) ==
    IsoOutcome("noCandidates", none, FALSE, st, gets, FALSE, 0, 0, 0, 0, 0)

\* no buffer overlaps the area, lines 274-284: the fallback is written by
\* cache.set and returned.  st, stored: localStorage before and after the set
onNoCandidates(st, stored, gets) ==
    IsoOutcome("noCandidates", none, FALSE, stored, gets, TRUE, 0, 0, 0, 0, 0)

\* analyzeIsochrone, lines 241-347.  st, t: localStorage and Date.now();
\* loadingBefore: loading.value at the call; fail1, fail2: whether setItem
\* throws in cache.set.
analyzeIsochrone(area, parkBuffers, st, t, loadingBefore, fail1, fail2) ==
    LET id     == cacheKey(area.area_numbe, Len(parkBuffers))
        cached == get(st, generateKey("GEOMETRIC_CALC", id), t)
        st1    == cached.store
        store0(data) == set(st1, "GEOMETRIC_CALC", id, data, NoTtl, t, fail1, fail2).store
        candidates == filterCandidates(area.the_geom.bbox, parkBuffers, 1, << >>)
        points == area.the_geom.grid
        insideCount == countInside(points, candidates, 1)
    IN  IF cached.data # JsNull
        THEN IsoOutcome("cached", parse(cached.data), loadingBefore, st1, cached,
                        FALSE, 0, 0, 0, 0, 0)
        ELSE IF ~area.the_geom.present THEN onError(st1, cached)
        ELSE IF area.the_geom.planarArea <= 0 THEN onError(st1, cached)
        ELSE IF Len(candidates) = 0
        THEN onNoCandidates(st1, store0(stringify(none)), cached)
        ELSE IF Len(points) = 0
        THEN IsoOutcome("emptyGrid", none, FALSE, store0(stringify(none)), cached,
                        TRUE, 1, 0, Len(candidates), 0, 0)
        ELSE IsoOutcome("computed", coverageResult(insideCount, Len(points)), FALSE,
                        store0(stringify(coverageResult(insideCount, Len(points)))),
                        cached, TRUE, 1, Len(points), Len(candidates), insideCount,
                        Len(points))

\* the last call: its arguments, its outcome, and whether both writes of
\* cache.set met a full localStorage
IsoOp(area, parkBuffers, outcome, setFailed) ==
    [area |-> area, parkBuffers |-> parkBuffers, out |-> outcome, setFailed |-> setFailed]

NoIsoOutcome == IsoOutcome("none", none, FALSE, << >>, [hits |-> 0, misses |-> 0],
                           FALSE, 0, 0, 0, 0, 0)

InitIsochrone ==
    /\ isoLoading = FALSE
    /\ isoOp = IsoOp(CommunityArea("", NoAreaGeom), << >>, NoIsoOutcome, FALSE)
    /\ isoCalls = 0
    /\ isoPrev = IsoOp(CommunityArea("", NoAreaGeom), << >>, NoIsoOutcome, FALSE)

\* what an earlier session left under the coverage key of area "8" with one
\* buffer: nothing, or the result it computed with the parks of that day, the
\* entry being a minute or a day and a minute old
CoverageInitRaws ==
    { NoItem,
      EntryText(stringify(coverageResult(GridPoints, GridPoints)), -60000, DAY_MS),
      EntryText(stringify(coverageResult(GridPoints, GridPoints)), -60000 - DAY_MS, DAY_MS) }

InitCoverageStore ==
    /\ now = 0
    /\ store \in {[k \in AllKeys |->
                     IF k = LocaleKey THEN LocaleText
                     ELSE IF k = generateKey("GEOMETRIC_CALC", cacheKey("8", 1)) THEN raw
                     ELSE NoItem] : raw \in CoverageInitRaws}
    /\ hits = [h \in Handles |-> 0]
    /\ misses = [h \in Handles |-> 0]
    /\ getCalls = [h \in Handles |-> 0]
    /\ lastStored = [k \in AppKeys |-> NotStored]
    /\ lastOp = OpRecord("load", LocaleKey)
    /\ ticks = 0
    /\ ops = 0

\* analyzeIsochrone(area, parkBuffers); the cache it uses is the handle that
\* useIsochroneAnalysis made
AnalyzeIsochrone(area, parkBuffers, fail1, fail2) ==
    /\ isoCalls < MaxCalls
    /\ \E r \in {analyzeIsochrone(area, parkBuffers, store, now, isoLoading, fail1, fail2)} :
        /\ isoCalls' = isoCalls + 1
        /\ isoLoading' = r.loading
        /\ isoOp' = IsoOp(area, parkBuffers, [r EXCEPT !.store = << >>], fail1 /\ fail2)
        /\ isoPrev' = isoOp
        /\ store' = r.store
        /\ hits' = [hits EXCEPT !["useIsochroneAnalysis"] = @ + r.hits]
        /\ misses' = [misses EXCEPT !["useIsochroneAnalysis"] = @ + r.misses]
        /\ getCalls' = [getCalls EXCEPT !["useIsochroneAnalysis"] = @ + 1]
        /\ UNCHANGED <<now, lastStored, lastOp, ticks, ops, premiumVars, bufferVars, indexVars, parcelVars, appVars>>

NextIsochrone ==
    \E area \in CommunityAreas, parkBuffers \in CoverageBufferLists,
       fails \in {<<FALSE, FALSE>>, <<TRUE, FALSE>>, <<TRUE, TRUE>>} :
        AnalyzeIsochrone(area, parkBuffers, fails[1], fails[2])

----------------------------------------------------------------------------
(* Nearest-boundary index (PopupAnalysis.vue)                              *)
(* Positions are hundredths of a mile east and north of a corner of the    *)
(* city: a degree of latitude is taken as 69 miles and a degree of         *)
(* longitude as 69 * cos(lat) miles, as the query does.  A park is a set   *)
(* of rectangles <<west, south, east, north>>, its boundary lines are      *)
(* their outlines, and a distance is carried as its square.                *)

\* the geometry of a park: lineThrows: turf.bbox or turf.polygonToLine throws
\* on it; rects: its polygons; distThrows: turf.pointToLineDistance throws on
\* its boundary lines
BoundaryGeom(rects) ==
    [present |-> TRUE, lineThrows |-> FALSE, rects |-> rects, distThrows |-> FALSE]

NoBoundaryGeom ==
    [present |-> FALSE, lineThrows |-> TRUE, rects |-> << >>, distThrows |-> FALSE]

\* the parks of the map: Humboldt a square of 0.4 miles, Lincoln two small
\* squares two miles apart (a MultiPolygon), Palmer a park without the_geom,
\* Grant a geometry polygonToLine rejects, Jackson a far square whose
\* boundary pointToLineDistance rejects
IndexedParks ==
    { Park(1, "Humboldt", BoundaryGeom(<< <<0, 0, 40, 40>> >>)),
      Park(2, "Lincoln", BoundaryGeom(<< <<0, 100, 10, 110>>, <<200, 100, 210, 110>> >>)),
      Park(3, "Palmer", NoBoundaryGeom),
      Park(4, "Grant", [BoundaryGeom(<< <<0, 0, 40, 40>> >>) EXCEPT !.lineThrows = TRUE]),
      Park(5, "Jackson", [BoundaryGeom(<< <<300, 0, 340, 40>> >>) EXCEPT !.distThrows = TRUE]) }

\* the park lists the map can be given
IndexedParkLists ==
    { << >> } \cup { <<p>> : p \in IndexedParks }
              \cup { <<pq[1], pq[2]>> :
                       pq \in {x \in IndexedParks \X IndexedParks : x[1] # x[2]} }

\* turf.bbox of the rectangles from j on, box being the bounding box so far
RECURSIVE bboxOf(_, _, _)
bboxOf(rects, j, box) ==
    IF j > Len(rects) THEN box
    ELSE bboxOf(rects, j + 1,
                <<Min(box[1], rects[j][1]), Min(box[2], rects[j][2]),
                  Max(box[3], rects[j][3]), Max(box[4], rects[j][4])>>)

\* the forEach of lines 323-341 from park i on
RECURSIVE indexFrom(_, _, _)
indexFrom(parks, i, result) ==
    IF i > Len(parks) THEN result
    ELSE LET geom == parks[i].the_geom IN
         IF ~geom.present THEN indexFrom(parks, i + 1, result)
         ELSE IF geom.lineThrows THEN indexFrom(parks, i + 1, result)
         ELSE IF Len(geom.rects) = 0 THEN indexFrom(parks, i + 1, result)
         ELSE indexFrom(parks, i + 1,
                        Append(result,
                               [bbox |-> bboxOf(geom.rects, 2, geom.rects[1]),
                                boundaries |-> [j \in 1 .. Len(geom.rects) |->
                                                  [outline |-> geom.rects[j],
                                                   throws |-> geom.distThrows]]]))

\* buildParkBoundaryIndex, lines 315-345: the index and the count it leaves
buildParkBoundaryIndex(parks) ==
    IF Len(parks) = 0
    THEN [parkBoundaryIndex |-> << >>, parkBoundaryIndexCount |-> 0]
    ELSE [parkBoundaryIndex |-> indexFrom(parks, 1, << >>),
          parkBoundaryIndexCount |-> Len(parks)]

\* turf.pointToLineDistance(point, line), squared: to the outline of a
\* rectangle, from outside or from inside
pointToLineDistance2(lng, lat, outline) ==
    LET dx == Max(Max(outline[1] - lng, lng - outline[3]), 0)
        dy == Max(Max(outline[2] - lat, lat - outline[4]), 0)
        inner == Min(Min(lng - outline[1], outline[3] - lng),
                     Min(lat - outline[2], outline[4] - lat))
    IN  IF dx = 0 /\ dy = 0 THEN inner * inner ELSE dx * dx + dy * dy

\* what a query has found so far: minDistance (Infinity while found is FALSE),
\* the number of pointToLineDistance calls, the entries they were made for
Scan(found, dist2, exact, tested) ==
    [found |-> found, dist2 |-> dist2, exact |-> exact, tested |-> tested]

\* the inner loop that keeps the last distance instead of the smallest
RECURSIVE scanLinesLast(_, _, _, _, _, _)
scanLinesLast(lng, lat, i, lines, j, sc) ==
    IF j > Len(lines) THEN sc
    ELSE IF lines[j].throws
    THEN scanLinesLast(lng, lat, i, lines, j + 1,
                       Scan(sc.found, sc.dist2, sc.exact + 1, sc.tested \cup {i}))
    ELSE scanLinesLast(lng, lat, i, lines, j + 1,
                       Scan(TRUE, pointToLineDistance2(lng, lat, lines[j].outline),
                            sc.exact + 1, sc.tested \cup {i}))

\* the inner loop of lines 368-375 over the lines of entry i, from line j on
RECURSIVE scanLines(_, _, _, _, _, _)
scanLines(lng, lat, i, lines, j, sc) ==
    IF j > Len(lines) THEN sc
    ELSE IF lines[j].throws
    THEN scanLines(lng, lat, i, lines, j + 1,
                   Scan(sc.found, sc.dist2, sc.exact + 1, sc.tested \cup {i}))
    ELSE LET d == pointToLineDistance2(lng, lat, lines[j].outline) IN
         IF ~sc.found \/ d < sc.dist2
         THEN scanLines(lng, lat, i, lines, j + 1,
                        Scan(TRUE, d, sc.exact + 1, sc.tested \cup {i}))
         ELSE scanLines(lng, lat, i, lines, j + 1,
                        Scan(sc.found, sc.dist2, sc.exact + 1, sc.tested \cup {i}))

\* the bounding box test with the two latitude comparisons left out
overlapsLngOnly(pointBbox, b) == pointBbox[1] <= b[3] /\ pointBbox[3] >= b[1]

\* line 365
overlaps(pointBbox, b) ==
    pointBbox[1] <= b[3] /\ pointBbox[3] >= b[1] /\ pointBbox[2] <= b[4] /\ pointBbox[4] >= b[2]

\* the loop of lines 363-376 from entry i on
RECURSIVE scanEntries(_, _, _, _, _, _)
scanEntries(index, lng, lat, pointBbox, i, sc) ==
    IF i > Len(index) THEN sc
    ELSE IF ~overlaps(pointBbox, index[i].bbox)
    THEN scanEntries(index, lng, lat, pointBbox, i + 1, sc)
    ELSE scanEntries(index, lng, lat, pointBbox, i + 1,
                     scanLines(lng, lat, i, index[i].boundaries, 1, sc))

\* getDistanceToNearestParkBoundaryMiles, lines 347-379; found = FALSE is null
getDistanceToNearestParkBoundaryMiles(index, lng, lat, maxMiles) ==
    IF Len(index) = 0 THEN Scan(FALSE, 0, 0, {})
    ELSE scanEntries(index, lng, lat,
                     <<lng - maxMiles, lat - maxMiles, lng + maxMiles, lat + maxMiles>>,
                     1, Scan(FALSE, 0, 0, {}))

\* the positions and the maxMiles the map asks for
QueryLngs == {-100, 20, 41, 90, 105, 270}
QueryLats == {5, 20, 90, 105, 300}
QueryMaxMiles == {20, 60}

IndexOp(op, lng, lat, maxMiles, out) ==
    [op |-> op, lng |-> lng, lat |-> lat, maxMiles |-> maxMiles, out |-> out]

InitIndex ==
    /\ indexParks = << >>
    /\ parkBoundaryIndex = << >>
    /\ parkBoundaryIndexCount = 0
    /\ indexOp = IndexOp("none", 0, 0, 0, Scan(FALSE, 0, 0, {}))

\* the map is given a park list and builds the index for it
BuildParkBoundaryIndex(parks) ==
    /\ indexParks' = parks
    /\ parkBoundaryIndex' = buildParkBoundaryIndex(parks).parkBoundaryIndex
    /\ parkBoundaryIndexCount' = buildParkBoundaryIndex(parks).parkBoundaryIndexCount
    /\ indexOp' = IndexOp("build", 0, 0, 0, Scan(FALSE, 0, 0, {}))
    /\ UNCHANGED <<cacheVars, premiumVars, bufferVars, isoVars, parcelVars, appVars>>

\* a hover asks for the distance from a position
Query(lng, lat, maxMiles) ==
    /\ indexOp' = IndexOp("query", lng, lat, maxMiles,
                          getDistanceToNearestParkBoundaryMiles(parkBoundaryIndex,
                                                                lng, lat, maxMiles))
    /\ UNCHANGED <<indexParks, parkBoundaryIndex, parkBoundaryIndexCount,
                   cacheVars, premiumVars, bufferVars, isoVars, parcelVars, appVars>>

\* setupLayers, lines 642-782, as far as the index goes: the early return of
\* lines 653-657 and the dirty check of lines 778-782
setupLayers(parks, areasLength, index, count) ==
    IF areasLength = 0 /\ Len(parks) = 0
    THEN [parkBoundaryIndex |-> index, parkBoundaryIndexCount |-> count, ran |-> FALSE]
    ELSE IF Len(parks) > 0 /\ count # Len(parks)
    THEN [parkBoundaryIndex |-> buildParkBoundaryIndex(parks).parkBoundaryIndex,
          parkBoundaryIndexCount |-> buildParkBoundaryIndex(parks).parkBoundaryIndexCount,
          ran |-> TRUE]
    ELSE [parkBoundaryIndex |-> index, parkBoundaryIndexCount |-> count, ran |-> TRUE]

\* props.parks of the loaded map becomes another list, there being
\* areasLength community areas, and the watcher of lines 1018-1026 calls
\* setupLayers
ParksChange(parks, areasLength) ==
    /\ parks # indexParks
    /\ indexParks' = parks
    /\ \E r \in {setupLayers(parks, areasLength, parkBoundaryIndex, parkBoundaryIndexCount)} :
        /\ parkBoundaryIndex' = r.parkBoundaryIndex
        /\ parkBoundaryIndexCount' = r.parkBoundaryIndexCount
        /\ indexOp' = IndexOp(IF r.ran THEN "setupLayers" ELSE "waiting", 0, 0, 0,
                              Scan(FALSE, 0, 0, {}))
    /\ UNCHANGED <<cacheVars, premiumVars, bufferVars, isoVars, parcelVars, appVars>>

NextIndex ==
    \/ \E parks \in IndexedParkLists : BuildParkBoundaryIndex(parks)
    \/ \E lng \in QueryLngs, lat \in QueryLats, maxMiles \in QueryMaxMiles :
          Query(lng, lat, maxMiles)

\* the map with the park list it is handed through its props
NextMapData ==
    \E parks \in IndexedParkLists, areasLength \in {0, 2} : ParksChange(parks, areasLength)

----------------------------------------------------------------------------
(* Parcel evaluator (useParcelAnalysis)                                    *)
(* Positions as for the boundary index; the parks and the clicked points   *)
(* lie in one east-west band, so that every distance is a whole number of  *)
(* hundredths of a mile.  Money is in dollars.                             *)

\* the parks handed to analyzeParcel: Humboldt and Garfield squares of 0.4
\* miles, 1.6 miles apart; Lincoln two strips (a MultiPolygon); Palmer without
\* the_geom; Grant a geometry polygonToLine rejects
ParcelParks ==
    [Humboldt |-> Park(1, "Humboldt", BoundaryGeom(<< <<0, 0, 40, 40>> >>)),
     Garfield |-> Park(6, "Garfield", BoundaryGeom(<< <<200, 0, 240, 40>> >>)),
     Lincoln  |-> Park(2, "Lincoln",
                       BoundaryGeom(<< <<300, 0, 310, 40>>, <<400, 0, 410, 40>> >>)),
     Palmer   |-> Park(3, "Palmer", NoBoundaryGeom),
     Grant    |-> Park(4, "Grant",
                       [BoundaryGeom(<< <<0, 0, 40, 40>> >>) EXCEPT !.lineThrows = TRUE])]

ParcelParkLists ==
    { << >>,
      <<ParcelParks.Humboldt>>, <<ParcelParks.Palmer>>, <<ParcelParks.Grant>>,
      <<ParcelParks.Lincoln>>,
      <<ParcelParks.Humboldt, ParcelParks.Garfield>>,
      <<ParcelParks.Garfield, ParcelParks.Humboldt>>,
      <<ParcelParks.Palmer, ParcelParks.Humboldt>> }

\* the clicked points: inside Humboldt, on its boundary, and 0.2, 0.21, 0.3,
\* 0.8, 0.81 and 1.0 miles east of it
ClickLngs == {20, 40, 60, 61, 70, 120, 121, 140}
ClickLats == {20}

\* turf.pointToLineDistance(point, line) in miles, to the outline of a
\* rectangle
pointToLineDistance(lng, lat, outline) ==
    LET dx == Max(Max(outline[1] - lng, lng - outline[3]), 0)
        dy == Max(Max(outline[2] - lat, lat - outline[4]), 0)
        inner == Min(Min(lng - outline[1], outline[3] - lng),
                     Min(lat - outline[2], outline[4] - lat))
    IN  IF dx = 0 /\ dy = 0 THEN inner
        ELSE IF dy = 0 THEN dx
        ELSE IF dx = 0 THEN dy
        ELSE CHOOSE d \in 0 .. (dx + dy) : d * d = dx * dx + dy * dy

\* the distance to the boundary of a park of several polygons, from rectangle
\* j on, nearest being the smallest so far
RECURSIVE boundaryDistance(_, _, _, _, _)
boundaryDistance(lng, lat, rects, j, nearest) ==
    IF j > Len(rects) THEN nearest
    ELSE boundaryDistance(lng, lat, rects, j + 1,
                          Min(nearest, pointToLineDistance(lng, lat, rects[j])))

\* the value getDistanceToNearestAsset returns; set = FALSE stands for null
Asset(name, distanceMiles) == [set |-> TRUE, name |-> name, distanceMiles |-> distanceMiles]
NoAsset == [set |-> FALSE, name |-> "", distanceMiles |-> 0]

\* what the forEach of lines 164-181 holds: the nearest asset so far and the
\* number of distances computed
Nearest(asset, distances) == [asset |-> asset, distances |-> distances]

\* the forEach of lines 164-181 from asset i on
RECURSIVE forEachAsset(_, _, _, _, _)
forEachAsset(lng, lat, assets, i, acc) ==
    IF i > Len(assets) THEN acc
    ELSE LET geom == assets[i].the_geom IN
         IF ~geom.present THEN forEachAsset(lng, lat, assets, i + 1, acc)
         ELSE IF geom.lineThrows \/ Len(geom.rects) = 0
         THEN forEachAsset(lng, lat, assets, i + 1, acc)
         ELSE IF geom.distThrows
         THEN forEachAsset(lng, lat, assets, i + 1, Nearest(acc.asset, acc.distances + 1))
         ELSE LET distance == boundaryDistance(lng, lat, geom.rects, 2,
                                  pointToLineDistance(lng, lat, geom.rects[1]))
              IN  IF ~acc.asset.set \/ distance < acc.asset.distanceMiles
                  THEN forEachAsset(lng, lat, assets, i + 1,
                                    Nearest(Asset(assets[i].park_name, distance),
                                            acc.distances + 1))
                  ELSE forEachAsset(lng, lat, assets, i + 1,
                                    Nearest(acc.asset, acc.distances + 1))

\* getDistanceToNearestAsset, lines 149-186
getDistanceToNearestAsset(lng, lat, assets) ==
    IF Len(assets) = 0 THEN Nearest(NoAsset, 0)
    ELSE forEachAsset(lng, lat, assets, 1, Nearest(NoAsset, 0))

\* the table of the README, "Metodologia DePaul University": the premium by
\* distance tier, in hundredths of a percent
DePaulTable(distanceMiles) ==
    IF distanceMiles <= 20 THEN 2230
    ELSE IF distanceMiles <= 40 THEN 1460
    ELSE IF distanceMiles <= 60 THEN 790
    ELSE IF distanceMiles <= 80 THEN 210
    ELSE 0

\* the premium granted at every distance
calculatePremiumFlat(distanceMiles) == VALUATION_CONFIG.premium

\* calculatePremium, lines 194-196
calculatePremium(distanceMiles) ==
    IF distanceMiles <= VALUATION_CONFIG.distance THEN VALUATION_CONFIG.premium ELSE 0

\* line 243 with >= for >
outsideZoneInclusive(nearestPark) == ~nearestPark.set \/ nearestPark.distanceMiles >= 80

\* line 243: !nearestPark || nearestPark.distanceMiles > 0.8
outsideZone(nearestPark) == ~nearestPark.set \/ nearestPark.distanceMiles > 80

\* line 259
baseValue == 1000

\* line 260: baseValue * (1 + premium / 100), premium in hundredths of a percent
valuatedValue(premium) == (baseValue * (10000 + premium)) \div 10000

Valuation(premium) ==
    [set |-> TRUE, premium |-> premium, baseValue |-> baseValue,
     valuatedValue |-> valuatedValue(premium)]
NoValuation == [set |-> FALSE, premium |-> 0, baseValue |-> 0, valuatedValue |-> 0]

\* a ParcelAnalysisResult; set = FALSE stands for null
Analysis(parcel, isInValuationZone, nearestAsset, valuation) ==
    [set |-> TRUE, parcel |-> parcel, isInValuationZone |-> isInValuationZone,
     nearestAsset |-> nearestAsset, valuation |-> valuation]
NoAnalysis == [set |-> FALSE, parcel |-> "", isInValuationZone |-> FALSE,
               nearestAsset |-> NoAsset, valuation |-> NoValuation]

NotFoundMessage == "No parcel found at this location"

\* fetchParcelByLocation, App.vue lines 283-321: the record for "found", null
\* for an empty answer, for a response that is not ok and for a failed fetch
FetchOutcomes == {"found", "empty", "notOk", "failed"}

fetchParcelByLocation(lat, lng, outcome) ==
    IF outcome = "found" THEN <<"parcel", lng, lat>> ELSE << >>

\* the part of analyzeParcel after the await, lines 225-284: error.value,
\* currentAnalysis.value and loading.value it leaves, the distances and the
\* valuations it computed.  pointThrows: turf rejects the clicked point.
afterFetch(call, outcome, pointThrows, errorBefore, analysisBefore) ==
    LET parcelData  == fetchParcelByLocation(call.lat, call.lng, outcome)
        near        == getDistanceToNearestAsset(call.lng, call.lat, call.parks)
        nearestPark == near.asset
        premium     == calculatePremium(nearestPark.distanceMiles)
    IN  IF parcelData = << >>
        THEN [error |-> NotFoundMessage, currentAnalysis |-> analysisBefore,
              loading |-> FALSE, distances |-> 0, valuations |-> 0, path |-> "notFound"]
        ELSE IF pointThrows /\ Len(call.parks) # 0
        THEN [error |-> "coordinates must contain numbers",
              currentAnalysis |-> analysisBefore,
              loading |-> FALSE, distances |-> 0, valuations |-> 0, path |-> "caught"]
        ELSE IF outsideZone(nearestPark)
        THEN [error |-> errorBefore,
              currentAnalysis |-> Analysis(parcelData, FALSE, NoAsset, NoValuation),
              loading |-> FALSE, distances |-> near.distances, valuations |-> 0,
              path |-> "outside"]
        ELSE [error |-> errorBefore,
              currentAnalysis |-> Analysis(parcelData, TRUE, nearestPark, Valuation(premium)),
              loading |-> FALSE, distances |-> near.distances, valuations |-> 1,
              path |-> "inside"]

Call(id, lat, lng, parks) == [id |-> id, lat |-> lat, lng |-> lng, parks |-> parks]

\* every call analyzeParcel can be started with
Calls == {Call(id, lat, lng, parks) :
              id \in 1 .. MaxClicks, lat \in ClickLats, lng \in ClickLngs,
              parks \in ParcelParkLists}

NoCall == Call(0, 0, 0, << >>)

ParcelOp(op, call, outcome, out) == [op |-> op, call |-> call, outcome |-> outcome, out |-> out]

NoOut == [error |-> JsNull, currentAnalysis |-> NoAnalysis, loading |-> FALSE,
          distances |-> 0, valuations |-> 0, path |-> "none"]

\* what the most recently started call set when it completed
Completed(r) == [done |-> TRUE, error |-> r.error, currentAnalysis |-> r.currentAnalysis]

NotCompleted == [done |-> FALSE, error |-> JsNull, currentAnalysis |-> NoAnalysis]

InitParcel ==
    /\ parcelLoading = FALSE
    /\ currentAnalysis = NoAnalysis
    /\ parcelError = JsNull
    /\ inFlight = {}
    /\ started = 0
    /\ parcelOp = ParcelOp("none", NoCall, "", NoOut)
    /\ latest = NotCompleted

\* analyzeParcel(lat, lng, parks) up to its await, lines 216-223
StartAnalyzeParcel(lat, lng, parks) ==
    /\ started < MaxClicks
    /\ started' = started + 1
    /\ parcelLoading' = TRUE
    /\ parcelError' = JsNull
    /\ currentAnalysis' = NoAnalysis
    /\ inFlight' = inFlight \cup {Call(started + 1, lat, lng, parks)}
    /\ parcelOp' = ParcelOp("start", Call(started + 1, lat, lng, parks), "", NoOut)
    /\ latest' = NotCompleted
    /\ UNCHANGED <<cacheVars, premiumVars, bufferVars, isoVars, indexVars, appVars>>

\* the parcel fetch of a suspended call settles and the call runs to its end
FinishAnalyzeParcel(call, outcome, pointThrows) ==
    /\ call \in inFlight
    /\ \E r \in {afterFetch(call, outcome, pointThrows, parcelError, currentAnalysis)} :
        /\ parcelError' = r.error
        /\ currentAnalysis' = r.currentAnalysis
        /\ parcelLoading' = r.loading
        /\ parcelOp' = ParcelOp("finish", call, outcome, r)
    /\ latest' = IF call.id = started
                 THEN Completed(afterFetch(call, outcome, pointThrows, JsNull, NoAnalysis))
                 ELSE latest
    /\ inFlight' = inFlight \ {call}
    /\ UNCHANGED <<started, cacheVars, premiumVars, bufferVars, isoVars, indexVars, appVars>>

\* clearAnalysis, lines 290-293
ClearAnalysis ==
    /\ currentAnalysis' = NoAnalysis
    /\ parcelError' = JsNull
    /\ parcelOp' = ParcelOp("clear", NoCall, "", NoOut)
    /\ UNCHANGED <<parcelLoading, inFlight, started, latest,
                   cacheVars, premiumVars, bufferVars, isoVars, indexVars, appVars>>

NextParcel ==
    \/ \E lat \in ClickLats, lng \in ClickLngs, parks \in ParcelParkLists :
          StartAnalyzeParcel(lat, lng, parks)
    \/ \E call \in Calls, outcome \in FetchOutcomes, pointThrows \in BOOLEAN :
          FinishAnalyzeParcel(call, outcome, pointThrows)
    \/ ClearAnalysis

----------------------------------------------------------------------------
(* Application start-up (App.vue, onMounted) and the events of the user    *)
(* The two loads are suspended on their fetches and settle in any order;   *)
(* what follows the join runs in the same turn as the later of the two.    *)
(* The estimator is the one of the sections above, with the cache it       *)
(* writes; the aggregation of parks by area in selectedAreaData is not     *)
(* followed.                                                               *)

LayerIds == {"community-areas", "critical-areas", "parks", "park-buffers"}

getArea(area_numbe) == CHOOSE a \in CommunityAreas : a.area_numbe = area_numbe

\* the list of community areas a cached or fetched value stands for: "areasA"
\* what fetchCommunityAreas answers, "areasB" the list of an earlier session
areasOf(data) ==
    IF data = "areasA" THEN <<getArea("8"), getArea("47")>>
    ELSE IF data = "areasB"
    THEN <<getArea("8"), getArea("76"), getArea("9"), getArea("47")>>
    ELSE << >>

\* the lists fetchParks answers with
FetchedParks ==
    { Batch(geoms) :
        geoms \in { << >>, <<NoGeom>>,
                    <<Geom("Polygon", TRUE, <<5>>, << >>, "ok")>>,
                    <<Geom("Polygon", TRUE, <<5>>, << >>, "ok"),
                      Geom("MultiPolygon", TRUE, << >>, << <<4>>, <<6, 4>> >>, "ok")>> } }

\* the polygon turf.buffer made for a park, as the estimator sees it: the
\* buffer of park 1 lies around the two westmost points of area "8", that of
\* any other park over the rest of the area
turfBuffer(b) == IF b.sourceId = 1 THEN Tight.geometry ELSE Upper.geometry

coverageOf(bufs) == [i \in 1 .. Len(bufs) |-> CoverageBuffer(bufs[i].id, turfBuffer(bufs[i]))]

\* a call of analyzeIsochrone: who made it, where onMounted stood, and the
\* number of buffers it was given
IsoRun(by, pc, length) == [by |-> by, pc |-> pc, length |-> length]

\* the counters of a cache handle
Stats(h, m, g) == [hits |-> h, misses |-> m, gets |-> g]

\* what an evaluation did: whether analyzeIsochrone ran, localStorage after
\* it, the increments of the handle's counters, loading.value of the estimator
Evaluation(ran, st, stats, loading) ==
    [ran |-> ran, store |-> st, stats |-> stats, loading |-> loading]

\* selectedAreaData, lines 65-78, with selectedAreaObject of
\* useCommunityAreas.ts lines 71-77
selectedAreaData(sel, areas, parkBuffers, st, t, loadingBefore) ==
    LET found == {i \in 1 .. Len(areas) : areas[i].area_numbe = sel} IN
    IF sel = JsNull \/ found = {}
    THEN Evaluation(FALSE, st, Stats(0, 0, 0), loadingBefore)
    ELSE LET area == areas[CHOOSE i \in found : \A j \in found : i <= j]
             r == analyzeIsochrone(area, coverageOf(parkBuffers), st, t, loadingBefore,
                                   FALSE, FALSE)
         IN  Evaluation(TRUE, r.store, Stats(r.hits, r.misses, 1), r.loading)

\* parseFloat of a percentage written with one decimal, in tenths
parseFloat(text) ==
    CHOOSE tenths \in 0 .. 1000 : ToString(tenths \div 10) \o "." \o ToString(tenths % 10) = text

\* lines 287-288: outside >= 30
isCritical(analysis) == parseFloat(analysis.lowPercentage) >= 300

\* what a run of the loop did: localStorage, the counters of the estimator's
\* cache handle, the index to go on with, whether the loop came to its end,
\* whether setFeatureState threw, the feature states and the percentages seen
LoopRun(st, stats, i, finished, threw, flags, outside) ==
    [store |-> st, stats |-> stats, i |-> i, finished |-> finished, threw |-> threw,
     critical |-> flags, outside |-> outside]

\* the loop of ensureCriticalAreaStates, lines 284-300, from index i up to its
\* next await, its end, or the exception of a setFeatureState that throws
\* (throws: the first setFeatureState of this run does)
RECURSIVE criticalLoop(_, _, _, _, _, _, _, _, _)
criticalLoop(areas, parkBuffers, i, st, t, stats, flags, outside, throws) ==
    IF i >= Len(areas)
    THEN LoopRun(st, stats, i, TRUE, FALSE, flags, outside)
    ELSE LET area == areas[i + 1]
             r == analyzeIsochrone(area, coverageOf(parkBuffers), st, t, FALSE,
                                   FALSE, FALSE)
             counted == Stats(stats.hits + r.hits, stats.misses + r.misses, stats.gets + 1)
             seen == [outside EXCEPT ![area.area_numbe] = r.result.lowPercentage]
             marked == [flags EXCEPT ![area.area_numbe] =
                         IF isCritical(r.result) THEN "true" ELSE "false"]
         IN  IF throws
             THEN LoopRun(r.store, counted, i, FALSE, TRUE, flags, seen)
             ELSE IF i % 3 = 0
             THEN LoopRun(r.store, counted, i + 1, FALSE, FALSE, marked, seen)
             ELSE criticalLoop(areas, parkBuffers, i + 1, r.store, t, counted, marked, seen,
                               FALSE)

\* the guards without the test of the flag that a loop is under way
criticalGuardsUnlocked(computed, inProgress, hasSource, areas, parkBuffers) ==
    /\ ~computed
    /\ hasSource
    /\ Len(areas) # 0 /\ Len(parkBuffers) # 0

\* the guards of ensureCriticalAreaStates, lines 276-279
criticalGuards(computed, inProgress, hasSource, areas, parkBuffers) ==
    /\ ~computed /\ ~inProgress
    /\ hasSource
    /\ Len(areas) # 0 /\ Len(parkBuffers) # 0

NotGenerated == [ran |-> FALSE, parksFetch |-> "idle", areasFetch |-> "idle"]

\* how the call of loadCommunityAreas went: path "cached", "fetching",
\* "fetched" or "failed"; pre: what was under COMMUNITY_AREAS:all before the
\* step; data: what cache.get returned
AreasOp(path, pre, data) == [path |-> path, pre |-> pre, data |-> data]

NoAreasOp == AreasOp("none", NoItem, JsNull)

InitApp ==
    /\ appPc = "validating"
    /\ parksFetch = "idle"
    /\ areasFetch = "idle"
    /\ appParks = << >>
    /\ communityAreas = << >>
    /\ selectedArea = JsNull
    /\ layers = [l \in LayerIds |-> FALSE]
    /\ mapReady = FALSE
    /\ mapLayers = FALSE
    /\ criticalStatesComputed = FALSE
    /\ criticalComputationInProgress = FALSE
    /\ criticalI = 0
    /\ mapStats = Stats(0, 0, 0)
    /\ events = 0
    /\ isoRuns = {}
    /\ generatedAt = NotGenerated
    /\ areasLoading = FALSE
    /\ areasError = JsNull
    /\ areasFetches = 0
    /\ areasOp = NoAreasOp
    /\ critical = [a \in AreaNumbers |-> "unset"]
    /\ criticalOutside = [a \in AreaNumbers |-> ""]
    /\ activeLoops = 0

\* the counters of App's estimator and the store after an evaluation
Evaluated(e) ==
    /\ store' = e.store
    /\ hits' = [hits EXCEPT !["useIsochroneAnalysis"] = @ + e.stats.hits]
    /\ misses' = [misses EXCEPT !["useIsochroneAnalysis"] = @ + e.stats.misses]
    /\ getCalls' = [getCalls EXCEPT !["useIsochroneAnalysis"] = @ + e.stats.gets]
    /\ isoLoading' = e.loading

\* lines 125-136 of onMounted, reached when the later of the two loads is
\* through: generateAllBuffers for the parks that were loaded, and
\* selectedAreaData evaluated again for the new buffers.  st: localStorage as
\* the load left it.
Joined(parksNow, areasNow, st) ==
    LET gen == generateAllBuffers(parksNow, buffers) IN
    /\ appPc' = "done"
    /\ IF Len(parksNow) > 0
       THEN /\ buffers' = gen.buffers
            /\ bufLoading' = gen.loading
            /\ parksIn' = parksNow
            /\ bufOp' = BufOp("generateAllBuffers", Len(buffers), NoPark)
            /\ generatedAt' = [ran |-> TRUE, parksFetch |-> parksFetch',
                               areasFetch |-> areasFetch']
            /\ \E e \in {selectedAreaData(selectedArea, areasNow, gen.buffers, st, now,
                                          isoLoading)} :
                /\ Evaluated(e)
                /\ isoRuns' = IF e.ran
                              THEN isoRuns \cup {IsoRun("selectedAreaData", "done",
                                                        Len(gen.buffers))}
                              ELSE isoRuns
       ELSE /\ Evaluated(Evaluation(FALSE, st, Stats(0, 0, 0), isoLoading))
            /\ UNCHANGED <<buffers, bufLoading, parksIn, bufOp, generatedAt, isoRuns>>

\* a load is through and the other is not: onMounted stays at its await
NotJoined(st) ==
    /\ Evaluated(Evaluation(FALSE, st, Stats(0, 0, 0), isoLoading))
    /\ UNCHANGED <<appPc, buffers, bufLoading, parksIn, bufOp, generatedAt, isoRuns>>

\* setupLayers, lines 642-782, for the community areas: their source and
\* layers are put on the map once the map is loaded and there are areas
layersAfter(ready, areasNow) == mapLayers \/ (ready /\ Len(areasNow) > 0)

\* validateAPIConnection settles and onMounted goes on to line 120: loadParks
\* starts its fetch; loadCommunityAreas takes the list from the cache or
\* starts its fetch.  The old keys removed in lines 107-117 are keys nothing
\* writes.
ValidateAPIConnection ==
    /\ appPc = "validating"
    /\ appPc' = "loading"
    /\ parksFetch' = "pending"
    /\ \E g \in {get(store, generateKey("COMMUNITY_AREAS", "all"), now)} :
        /\ store' = g.store
        /\ hits' = [hits EXCEPT !["useCommunityAreas"] = @ + g.hits]
        /\ misses' = [misses EXCEPT !["useCommunityAreas"] = @ + g.misses]
        /\ getCalls' = [getCalls EXCEPT !["useCommunityAreas"] = @ + 1]
        /\ IF g.data # JsNull
           THEN /\ communityAreas' = areasOf(g.data)
                /\ areasFetch' = "settled"
                /\ areasOp' = AreasOp("cached", store[generateKey("COMMUNITY_AREAS", "all")],
                                      g.data)
                /\ UNCHANGED <<areasLoading, areasError, areasFetches>>
           ELSE /\ communityAreas' = communityAreas
                /\ areasFetch' = "pending"
                /\ areasLoading' = TRUE
                /\ areasError' = JsNull
                /\ areasFetches' = areasFetches + 1
                /\ areasOp' = AreasOp("fetching", store[generateKey("COMMUNITY_AREAS", "all")],
                                      g.data)
    /\ mapLayers' = layersAfter(mapReady, communityAreas')
    /\ UNCHANGED <<now, lastStored, lastOp, ticks, ops, premiumVars, bufferVars, isoVars,
                   indexVars, parcelVars, appParks, selectedArea, layers, mapReady,
                   criticalStatesComputed, criticalComputationInProgress, criticalI,
                   mapStats, events, isoRuns, generatedAt>>
    /\ UNCHANGED criticalState

\* the fetch of loadParks settles, useParks.ts lines 41-49: with a list of
\* parks, or with an error that leaves parks.value as it was
FetchParksSettles(fetched, ok) ==
    /\ parksFetch = "pending"
    /\ parksFetch' = "settled"
    /\ appParks' = IF ok THEN fetched ELSE appParks
    /\ UNCHANGED <<areasFetch, communityAreas>>
    /\ IF appPc = "loading" /\ areasFetch = "settled"
       THEN Joined(appParks', communityAreas, store)
       ELSE NotJoined(store)
    /\ mapLayers' = layersAfter(mapReady, communityAreas)
    /\ UNCHANGED <<now, lastStored, lastOp, ticks, ops, premiumVars, genResult, isoOp,
                   isoCalls, isoPrev, indexVars, parcelVars, selectedArea, layers, mapReady,
                   criticalStatesComputed, criticalComputationInProgress, criticalI,
                   mapStats, events>>
    /\ UNCHANGED areasState
    /\ UNCHANGED criticalState

\* the rest of loadCommunityAreas without its finally block
fetchSettledNoFinally(ok, areasBefore, errorBefore, st, t) ==
    [communityAreas |-> IF ok THEN areasOf("areasA") ELSE areasBefore,
     error   |-> IF ok THEN errorBefore ELSE "Error",
     loading |-> ~ok,
     store   |-> IF ok
                 THEN set(st, "COMMUNITY_AREAS", "all", "areasA", NoTtl, t, FALSE, FALSE).store
                 ELSE st]

\* loadCommunityAreas after its await, useCommunityAreas.ts lines 42-53: the
\* list is taken and cached, or the error is kept; loading ends either way
fetchSettled(ok, areasBefore, errorBefore, st, t) ==
    [communityAreas |-> IF ok THEN areasOf("areasA") ELSE areasBefore,
     error   |-> IF ok THEN errorBefore ELSE "Error",
     loading |-> FALSE,
     store   |-> IF ok
                 THEN set(st, "COMMUNITY_AREAS", "all", "areasA", NoTtl, t, FALSE, FALSE).store
                 ELSE st]

\* the fetch of loadCommunityAreas settles, with the list or with an error
FetchCommunityAreasSettles(ok) ==
    /\ areasFetch = "pending"
    /\ areasFetch' = "settled"
    /\ UNCHANGED <<parksFetch, appParks, areasFetches>>
    /\ \E r \in {fetchSettled(ok, communityAreas, areasError, store, now)} :
        /\ communityAreas' = r.communityAreas
        /\ areasError' = r.error
        /\ areasLoading' = r.loading
        /\ IF appPc = "loading" /\ parksFetch = "settled"
           THEN Joined(appParks, r.communityAreas, r.store)
           ELSE NotJoined(r.store)
    /\ areasOp' = AreasOp(IF ok THEN "fetched" ELSE "failed",
                          store[generateKey("COMMUNITY_AREAS", "all")], JsNull)
    /\ mapLayers' = layersAfter(mapReady, communityAreas')
    /\ UNCHANGED <<now, lastStored, lastOp, ticks, ops, premiumVars, genResult, isoOp,
                   isoCalls, isoPrev, indexVars, parcelVars, selectedArea, layers, mapReady,
                   criticalStatesComputed, criticalComputationInProgress, criticalI,
                   mapStats, events>>
    /\ UNCHANGED criticalState

\* the map fires 'load', PopupAnalysis.vue lines 423-438
MapLoad ==
    /\ ~mapReady
    /\ mapReady' = TRUE
    /\ mapLayers' = layersAfter(TRUE, communityAreas)
    /\ UNCHANGED <<cacheVars, premiumVars, bufferVars, isoVars, indexVars, parcelVars,
                   appPc, parksFetch, areasFetch, appParks, communityAreas, selectedArea,
                   layers, criticalStatesComputed, criticalComputationInProgress,
                   criticalI, mapStats, events, isoRuns, generatedAt>>
    /\ UNCHANGED areasState
    /\ UNCHANGED criticalState

\* the user clicks a community area on the map: handleAreaClick, selectArea,
\* and selectedAreaData evaluated for the selection
AreaClick(areaNumber) ==
    /\ events < MaxEvents
    /\ events' = events + 1
    /\ mapLayers
    /\ \/ layers["community-areas"]
       \/ layers["critical-areas"]
            /\ (criticalStatesComputed \/ criticalComputationInProgress)
    /\ \E i \in 1 .. Len(communityAreas) : communityAreas[i].area_numbe = areaNumber
    /\ selectedArea' = areaNumber
    /\ \E e \in {selectedAreaData(areaNumber, communityAreas, buffers, store, now,
                                  isoLoading)} :
        /\ Evaluated(e)
        /\ isoRuns' = IF e.ran
                      THEN isoRuns \cup {IsoRun("selectedAreaData", appPc, Len(buffers))}
                      ELSE isoRuns
    /\ UNCHANGED <<now, lastStored, lastOp, ticks, ops, premiumVars, bufferVars, isoOp,
                   isoCalls, isoPrev, indexVars, parcelVars, appPc, parksFetch, areasFetch,
                   appParks, communityAreas, layers, mapReady, mapLayers,
                   criticalStatesComputed, criticalComputationInProgress, criticalI,
                   mapStats, generatedAt>>
    /\ UNCHANGED areasState
    /\ UNCHANGED criticalState

\* handleClearSelection
ClearSelection ==
    /\ events < MaxEvents
    /\ events' = events + 1
    /\ selectedArea # JsNull
    /\ selectedArea' = JsNull
    /\ UNCHANGED <<cacheVars, premiumVars, bufferVars, isoVars, indexVars, parcelVars,
                   appPc, parksFetch, areasFetch, appParks, communityAreas, layers,
                   mapReady, mapLayers, criticalStatesComputed,
                   criticalComputationInProgress, criticalI, mapStats, isoRuns,
                   generatedAt>>
    /\ UNCHANGED areasState
    /\ UNCHANGED criticalState

\* the loop of ensureCriticalAreaStates runs from index i to its next await or
\* to its end, where lines 302-304 set the two flags
CriticalRuns(i, begins, throws) ==
    \E r \in {criticalLoop(communityAreas, buffers, i, store, now, mapStats, critical,
                           criticalOutside, throws)} :
        /\ store' = r.store
        /\ mapStats' = r.stats
        /\ criticalI' = r.i
        /\ critical' = r.critical
        /\ criticalOutside' = r.outside
        /\ criticalStatesComputed' = r.finished
        /\ criticalComputationInProgress' = (~r.finished /\ ~r.threw)
        /\ activeLoops' = activeLoops + (IF begins THEN 1 ELSE 0)
                                      - (IF r.finished \/ r.threw THEN 1 ELSE 0)
        /\ isoRuns' = IF r.stats.gets # mapStats.gets
                      THEN isoRuns \cup {IsoRun("ensureCriticalAreaStates", appPc,
                                                Len(buffers))}
                      ELSE isoRuns

\* the user toggles a layer: handleToggleLayer, toggleLayer, and the watcher
\* of layerVisibility, PopupAnalysis.vue lines 1031-1060, which calls
\* ensureCriticalAreaStates while the critical areas are switched on
ToggleLayer(layerId, throws) ==
    /\ events < MaxEvents
    /\ events' = events + 1
    /\ layers' = [layers EXCEPT ![layerId] = ~@]
    /\ IF /\ layers'["critical-areas"]
          /\ criticalGuards(criticalStatesComputed, criticalComputationInProgress,
                            mapLayers, communityAreas, buffers)
       THEN CriticalRuns(0, TRUE, throws)
       ELSE /\ ~throws
            /\ UNCHANGED <<store, mapStats, criticalI, criticalStatesComputed,
                           criticalComputationInProgress, isoRuns, criticalState>>
    /\ UNCHANGED <<now, hits, misses, getCalls, lastStored, lastOp, ticks, ops,
                   premiumVars, bufferVars, isoVars, indexVars, parcelVars, appPc,
                   parksFetch, areasFetch, appParks, communityAreas, selectedArea,
                   mapReady, mapLayers, generatedAt>>
    /\ UNCHANGED areasState

\* the timer of line 297 fires and ensureCriticalAreaStates goes on
CriticalResumes(throws) ==
    /\ criticalComputationInProgress
    /\ CriticalRuns(criticalI, FALSE, throws)
    /\ UNCHANGED <<now, hits, misses, getCalls, lastStored, lastOp, ticks, ops,
                   premiumVars, bufferVars, isoVars, indexVars, parcelVars, appPc,
                   parksFetch, areasFetch, appParks, communityAreas, selectedArea,
                   layers, mapReady, mapLayers, events, generatedAt>>
    /\ UNCHANGED areasState

\* loadParks, which useParks hands out, is called once more after start-up
\* (App calls it in onMounted only): lines 36-41, up to the await
LoadParksAgain ==
    /\ events < MaxEvents
    /\ events' = events + 1
    /\ appPc = "done"
    /\ parksFetch = "settled"
    /\ parksFetch' = "pending"
    /\ UNCHANGED <<cacheVars, premiumVars, bufferVars, isoVars, indexVars, parcelVars,
                   appPc, areasFetch, appParks, communityAreas, selectedArea, layers,
                   mapReady, mapLayers, criticalStatesComputed,
                   criticalComputationInProgress, criticalI, mapStats, isoRuns,
                   generatedAt>>
    /\ UNCHANGED areasState
    /\ UNCHANGED criticalState

NextApp ==
    \/ ValidateAPIConnection
    \/ \E fetched \in FetchedParks, ok \in BOOLEAN : FetchParksSettles(fetched, ok)
    \/ \E ok \in BOOLEAN : FetchCommunityAreasSettles(ok)
    \/ MapLoad
    \/ \E areaNumber \in AreaNumbers : AreaClick(areaNumber)
    \/ ClearSelection
    \/ \E layerId \in LayerIds, throws \in BOOLEAN : ToggleLayer(layerId, throws)
    \/ \E throws \in BOOLEAN : CriticalResumes(throws)

\* the application with parks that are loaded again
NextReload ==
    \/ NextApp
    \/ LoadParksAgain

----------------------------------------------------------------------------
(* Idle values of the parts a specification does not exercise              *)

IdlePremium ==
    /\ d1 = 0 /\ d2 = 0 /\ p1 = 0 /\ p2 = 0 /\ ppc = "idle"

IdleBuffers ==
    /\ parksIn = << >> /\ buffers = << >> /\ bufLoading = FALSE
    /\ genResult = << >> /\ bufOp = BufOp("none", 0, NoPark)

IdleCache ==
    /\ now = 0
    /\ store = [k \in AllKeys |-> NoItem]
    /\ hits = [h \in Handles |-> 0]
    /\ misses = [h \in Handles |-> 0]
    /\ getCalls = [h \in Handles |-> 0]
    /\ lastStored = [k \in AppKeys |-> NotStored]
    /\ lastOp = OpRecord("load", LocaleKey)
    /\ ticks = 0
    /\ ops = 0

IdleIsochrone ==
    /\ isoLoading = FALSE
    /\ isoOp = IsoOp(CommunityArea("", NoAreaGeom), << >>, NoIsoOutcome, FALSE)
    /\ isoCalls = 0
    /\ isoPrev = IsoOp(CommunityArea("", NoAreaGeom), << >>, NoIsoOutcome, FALSE)

IdleIndex ==
    /\ indexParks = << >>
    /\ parkBoundaryIndex = << >>
    /\ parkBoundaryIndexCount = 0
    /\ indexOp = IndexOp("none", 0, 0, 0, Scan(FALSE, 0, 0, {}))

IdleParcel ==
    /\ parcelLoading = FALSE
    /\ currentAnalysis = NoAnalysis
    /\ parcelError = JsNull
    /\ inFlight = {}
    /\ started = 0
    /\ parcelOp = ParcelOp("none", NoCall, "", NoOut)
    /\ latest = NotCompleted

IdleApp ==
    /\ appPc = "validating" /\ parksFetch = "idle" /\ areasFetch = "idle"
    /\ appParks = << >> /\ communityAreas = << >> /\ selectedArea = JsNull
    /\ layers = [l \in LayerIds |-> FALSE]
    /\ mapReady = FALSE /\ mapLayers = FALSE
    /\ criticalStatesComputed = FALSE /\ criticalComputationInProgress = FALSE
    /\ criticalI = 0 /\ mapStats = Stats(0, 0, 0)
    /\ events = 0 /\ isoRuns = {} /\ generatedAt = NotGenerated
    /\ areasLoading = FALSE /\ areasError = JsNull /\ areasFetches = 0
    /\ areasOp = NoAreasOp
    /\ critical = [a \in AreaNumbers |-> "unset"]
    /\ criticalOutside = [a \in AreaNumbers |-> ""]
    /\ activeLoops = 0

IdleAnalysis == IdleIsochrone /\ IdleIndex /\ IdleParcel /\ IdleApp

InitSpecCache == InitCache /\ IdlePremium /\ IdleBuffers /\ IdleAnalysis

InitSpecPremium == InitPremium /\ IdleCache /\ IdleBuffers /\ IdleAnalysis

InitSpecBuffers == InitBuffers /\ IdleCache /\ IdlePremium /\ IdleAnalysis

InitSpecIsochrone ==
    /\ InitIsochrone /\ InitCoverageStore
    /\ IdlePremium /\ IdleBuffers /\ IdleIndex /\ IdleParcel /\ IdleApp

InitSpecIndex ==
    /\ InitIndex
    /\ IdleCache /\ IdlePremium /\ IdleBuffers /\ IdleIsochrone /\ IdleParcel /\ IdleApp

InitSpecParcel ==
    /\ InitParcel
    /\ IdleCache /\ IdlePremium /\ IdleBuffers /\ IdleIsochrone /\ IdleIndex /\ IdleApp

InitSpecApp ==
    /\ InitApp /\ InitCache
    /\ IdlePremium /\ IdleBuffers /\ IdleIsochrone /\ IdleIndex /\ IdleParcel

\* the store seen through one handle
SpecCache == InitSpecCache /\ [][NextCache]_vars

\* the counters of the three handles
SpecCacheStats == InitSpecCache /\ [][NextCacheStats]_vars

SpecPremium == InitSpecPremium /\ [][NextPremium]_vars

SpecBuffers == InitSpecBuffers /\ [][NextBuffers]_vars

\* the coverage estimator with the cache it stores its results in
SpecIsochrone == InitSpecIsochrone /\ [][NextIsochrone]_vars

\* the boundary index of the map and the hover queries
SpecIndex == InitSpecIndex /\ [][NextIndex]_vars

\* the boundary index kept up by setupLayers as the park list changes
SpecMapData == InitSpecIndex /\ [][NextMapData]_vars

\* the parcel evaluator with its calls suspended on the parcel fetch
SpecParcel == InitSpecParcel /\ [][NextParcel]_vars

\* start-up of the application interleaved with the events of the user
SpecApp == InitSpecApp /\ [][NextApp]_vars

\* the same with loadParks called again after start-up
SpecReload == InitSpecApp /\ [][NextReload]_vars

----------------------------------------------------------------------------
(* Properties                                                              *)

\* C1: cache round trip.  After set(ns, id, X) stored an entry for a
\* serializable X, a get(ns, id) made while now - timestamp < ttl returns X,
\* and a get made once now - timestamp >= ttl returns null; at
\* now - timestamp = ttl the entry is already expired.
C1_RoundTrip ==
    (/\ lastOp.op = "get"
     /\ lastStored[lastOp.key].valid
     /\ Serializable(lastStored[lastOp.key].data))
    => LET written == lastStored[lastOp.key] IN
       IF lastOp.at - written.timestamp < written.ttl
       THEN lastOp.path = "valid" /\ lastOp.data = written.data
       ELSE lastOp.path # "valid" /\ lastOp.data = JsNull

\* a get made exactly ttl after the set that stored the entry returned null
C1_Witness ==
    /\ lastOp.op = "get"
    /\ lastStored[lastOp.key].valid
    /\ lastStored[lastOp.key].data = "areasA"
    /\ lastOp.at - lastStored[lastOp.key].timestamp = lastStored[lastOp.key].ttl
    /\ lastOp.data = JsNull

\* C2: a get that finds a malformed value under the key does not throw,
\* returns null, and deletes the malformed entry: the key is no longer in the
\* store after the call.
C2_MalformedDeleted ==
    (lastOp.op = "get" /\ lastOp.pre \in Malformed)
    => /\ ~lastOp.threw
       /\ lastOp.data = JsNull
       /\ store[lastOp.key] = NoItem

\* C3: when the first write of set fails, set runs clearExpired once and
\* retries the write once; a failing retry is swallowed (set returns, no third
\* write), and every other entry that was still valid stays in the store.
C3_QuotaRetry ==
    (lastOp.op = "set" /\ lastOp.firstFailed)
    => /\ lastOp.sweeps = 1
       /\ lastOp.writes = 2
       /\ ~lastOp.threw
       /\ lastOp.stored = ~lastOp.retryFailed
       /\ lastOp.lostValid = {}

\* both writes of a set failed: the sweep removed the expired entry under its
\* key and left the valid entry of the other key
C3_Witness ==
    /\ lastOp.op = "set" /\ lastOp.firstFailed /\ lastOp.retryFailed
    /\ IsEntry(lastOp.pre) /\ store[lastOp.key] = NoItem
    /\ \E k \in AppKeys \ {lastOp.key} : isValid(store[k], lastOp.at)

\* C4: an entry stored by set without a ttl argument carries the default TTL
\* of its namespace (COMMUNITY_AREAS 7 days, PARKS 7 days, GEOMETRIC_CALC 1 day)
\* on every path that stores, the retry included; with a ttl argument the
\* stored ttl is that argument.
C4_StoredTtl ==
    /\ DEFAULT_TTLS("COMMUNITY_AREAS") = 7 * DAY_MS
    /\ DEFAULT_TTLS("PARKS") = 7 * DAY_MS
    /\ DEFAULT_TTLS("GEOMETRIC_CALC") = DAY_MS
    /\ (lastOp.op = "set" /\ lastOp.stored)
       => store[lastOp.key].ttl =
            IF lastOp.ttl.given THEN lastOp.ttl.value ELSE DEFAULT_TTLS(lastOp.namespace)

\* C5: each get adds one to exactly one counter of its handle: to hits when
\* it returns the stored valid value, to misses when it returns null (key
\* missing, entry expired, entry unreadable); hits + misses is the number of
\* get calls; no other operation changes a counter.
C5_CountersPerGet ==
    /\ \A h \in Handles : hits[h] + misses[h] = getCalls[h]
    /\ lastOp.op = "get"
       => /\ IF isValid(lastOp.pre, lastOp.at)
             THEN /\ hits = [lastOp.hitsBefore EXCEPT ![lastOp.handle] = @ + 1]
                  /\ misses = lastOp.missesBefore
                  /\ lastOp.data = lastOp.pre.data
             ELSE /\ misses = [lastOp.missesBefore EXCEPT ![lastOp.handle] = @ + 1]
                  /\ hits = lastOp.hitsBefore
                  /\ lastOp.data = JsNull
    /\ lastOp.op # "get" => hits = lastOp.hitsBefore /\ misses = lastOp.missesBefore

\* after a miss through one handle, a get through another handle returned the
\* stored value and was counted as the only hit
C5_Witness ==
    /\ lastOp.op = "get" /\ lastOp.path = "valid"
    /\ hits[lastOp.handle] = 1 /\ misses[lastOp.handle] = 0
    /\ Sum(hits) = 1 /\ Sum(misses) = 1

\* C6: the counters are one process-wide state: a get through one handle is
\* counted in the hits and misses getStats reports through every other handle.
C6_ProcessWide ==
    lastOp.op = "getStats"
    => /\ lastOp.statHits = Sum(hits)
       /\ lastOp.statMisses = Sum(misses)

\* C7: for distances d1 < d2 of the tabulated range [0.2, 0.8] miles,
\* estimatePremium(d1) >= estimatePremium(d2).
C7_Monotonic ==
    (/\ ppc = "done"
     /\ 20 <= d1 /\ d1 < d2 /\ d2 <= 80)
    => p1 >= p2

\* a tabulated distance and a distance two segments further
C7_Witness ==
    ppc = "done" /\ d1 = 30 /\ d2 = 45 /\ p1 = 1830 /\ p2 = 1290

\* C8: estimatePremium(d) = 22.3 for d <= 0.2; for d >= 0.8 it is
\* max(0, 2.1 - (d - 0.8) * 10), so 2.1 at 0.8, 0.1 at 1.0 and 0 at 5.0; it is
\* never negative.
C8_EndPolicies ==
    ppc = "done"
    => /\ (d1 <= 20 => p1 = 2230)
       /\ (d1 >= 80 => p1 = (IF 210 - (d1 - 80) * 10 > 0 THEN 210 - (d1 - 80) * 10 ELSE 0))
       /\ (d1 = 10 => p1 = 2230)
       /\ (d1 = 80 => p1 = 210)
       /\ (d1 = 100 => p1 = 10)
       /\ (d2 = 500 => p2 = 0)
       /\ p1 >= 0 /\ p2 >= 0

C8_Witness ==
    ppc = "done" /\ d1 = 100 /\ p1 = 10 /\ d2 = 500 /\ p2 = 0

\* the geometries the validation rejects: a Polygon whose first ring has fewer
\* than 4 positions, a MultiPolygon with such a polygon, any other type
C9_FailsValidation(g) ==
    \/ g.type = "Polygon" /\ (~g.hasCoordinates \/ Len(g.rings) = 0 \/ g.rings[1] < 4)
    \/ g.type = "MultiPolygon"
         /\ \E i \in 1 .. Len(g.polys) : Len(g.polys[i]) = 0 \/ g.polys[i][1] < 4
    \/ g.type \notin {"Polygon", "MultiPolygon"}

RECURSIVE C10_Concat(_, _)
C10_Concat(parks, n) ==
    IF n = 0 THEN << >> ELSE C10_Concat(parks, n - 1) \o generateParkBuffers(parks[n])

OneDecimal(tenths) == ToString(tenths \div 10) \o "." \o ToString(tenths % 10)

OneDecimalPercents == {OneDecimal(t) : t \in 0 .. 1000}

TenthsOf == [str \in OneDecimalPercents |-> CHOOSE t \in 0 .. 1000 : OneDecimal(t) = str]

C11_Fresh == isoOp.out.path \in {"caught", "noCandidates", "emptyGrid", "computed"}

C11_Percentages ==
    C11_Fresh =>
        LET result == isoOp.out.result IN
        /\ result.highPercentage \in OneDecimalPercents
        /\ result.lowPercentage \in OneDecimalPercents
        /\ result.avgPremium \in OneDecimalPercents
        /\ TenthsOf[result.highPercentage] + TenthsOf[result.lowPercentage] \in 999 .. 1001

\* a computed result whose two rounded percentages add up to 100.1, and the
\* counts it came from
C11_Witness ==
    /\ isoOp.out.path = "computed"
    /\ isoOp.out.insideCount \in 1 .. (isoOp.out.totalPoints - 1)
    /\ isoOp.out.result.highPercentage \in OneDecimalPercents
    /\ isoOp.out.result.lowPercentage \in OneDecimalPercents
    /\ TenthsOf[isoOp.out.result.highPercentage]
         + TenthsOf[isoOp.out.result.lowPercentage] = 1001

\* C12: for an area none of whose buffers has a bounding box overlapping the
\* area's bounding box (an empty buffer list included), analyzeIsochrone
\* returns inside 0, outside 100, avgPremium 0 and neither generates the grid
\* nor tests a sample point.
C12_Overlapping(area, b) ==
    /\ ~b.geometry.bboxThrows
    /\ area.the_geom.bbox[1] <= b.geometry.bbox[3]
    /\ area.the_geom.bbox[3] >= b.geometry.bbox[1]
    /\ area.the_geom.bbox[2] <= b.geometry.bbox[4]
    /\ area.the_geom.bbox[4] >= b.geometry.bbox[2]

C12_NoOverlap ==
    (/\ isoOp.out.path # "none"
     /\ isoOp.area.the_geom.present
     /\ \A i \in 1 .. Len(isoOp.parkBuffers) :
           ~C12_Overlapping(isoOp.area, isoOp.parkBuffers[i]))
    => /\ isoOp.out.result = none
       /\ isoOp.out.gridCalls = 0
       /\ isoOp.out.pointsTested = 0

\* C13: for an area whose geometry is missing, whose planar area is not
\* positive or whose masked grid is empty, analyzeIsochrone returns the
\* fallback without throwing; loading is false whenever a call has returned.
C13_Degenerate(area) ==
    \/ ~area.the_geom.present
    \/ area.the_geom.planarArea <= 0
    \/ Len(area.the_geom.grid) = 0

C13_Fallback ==
    isoOp.out.path # "none" =>
        /\ isoLoading = FALSE
        /\ ~isoOp.out.threw
        /\ C13_Degenerate(isoOp.area) => isoOp.out.result = none

\* the second call of a session, both being cache misses: an area with a
\* candidate buffer and an empty grid got the fallback
C13_Witness ==
    /\ isoOp.out.path = "emptyGrid"
    /\ isoOp.out.candidates > 0
    /\ isoOp.out.result = none
    /\ isoLoading = FALSE
    /\ isoCalls = 2
    /\ misses["useIsochroneAnalysis"] = 2

\* C14 as stated: the query returns the smallest exact distance of the tested
\* entries, returns null when the index is empty or no boundary is within
\* maxMiles of the point, and never returns more than maxMiles.
C14_QueryBoxMeets(i) ==
    /\ indexOp.lng - indexOp.maxMiles <= parkBoundaryIndex[i].bbox[3]
    /\ indexOp.lng + indexOp.maxMiles >= parkBoundaryIndex[i].bbox[1]
    /\ indexOp.lat - indexOp.maxMiles <= parkBoundaryIndex[i].bbox[4]
    /\ indexOp.lat + indexOp.maxMiles >= parkBoundaryIndex[i].bbox[2]

C14_Distances(entries) ==
    UNION { { pointToLineDistance2(indexOp.lng, indexOp.lat,
                                   parkBoundaryIndex[i].boundaries[j].outline) :
                j \in { k \in 1 .. Len(parkBoundaryIndex[i].boundaries) :
                          ~parkBoundaryIndex[i].boundaries[k].throws } } :
            i \in entries }

C14_IsSmallest(ds) ==
    IF ds = {} THEN ~indexOp.out.found
    ELSE /\ indexOp.out.found
         /\ indexOp.out.dist2 \in ds
         /\ \A d \in ds : indexOp.out.dist2 <= d

C14_WithinMaxMiles ==
    indexOp.op = "query" =>
        /\ C14_IsSmallest(C14_Distances(indexOp.out.tested))
        /\ (\A d \in C14_Distances(1 .. Len(parkBoundaryIndex)) :
               d > indexOp.maxMiles * indexOp.maxMiles) => ~indexOp.out.found
        /\ indexOp.out.found => indexOp.out.dist2 <= indexOp.maxMiles * indexOp.maxMiles

\* C14 amended: the query returns the smallest exact distance of the entries
\* whose bounding box meets the query box, and null when there is none (the
\* index is empty, no bounding box meets the query box, or every distance
\* computation failed); the distance returned can be greater than maxMiles.
C14_Minimum ==
    indexOp.op = "query" =>
        /\ indexOp.out.tested = {i \in 1 .. Len(parkBoundaryIndex) : C14_QueryBoxMeets(i)}
        /\ C14_IsSmallest(C14_Distances({i \in 1 .. Len(parkBoundaryIndex) :
                                           C14_QueryBoxMeets(i)}))

\* two entries were tested and the smallest distance is beyond maxMiles
C14_Witness ==
    /\ indexOp.op = "query"
    /\ Cardinality(indexOp.out.tested) = 2
    /\ indexOp.out.found
    /\ indexOp.out.dist2 > indexOp.maxMiles * indexOp.maxMiles

\* C15: an exact distance is computed only for the lines of entries whose
\* bounding box overlaps the query box; when no entry's box overlaps, the
\* query returns null after no exact distance computation.
C15_TwoStage ==
    indexOp.op = "query" =>
        /\ \A i \in indexOp.out.tested : C14_QueryBoxMeets(i)
        /\ (\A i \in 1 .. Len(parkBoundaryIndex) : ~C14_QueryBoxMeets(i))
             => (~indexOp.out.found /\ indexOp.out.exact = 0)

\* a query against an index of two entries that met neither bounding box
C15_Witness ==
    /\ indexOp.op = "query"
    /\ Len(parkBoundaryIndex) = 2
    /\ \A i \in 1 .. 2 : ~C14_QueryBoxMeets(i)
    /\ ~indexOp.out.found
    /\ indexOp.out.exact = 0

----------------------------------------------------------------------------
(* Parcel evaluator: properties                                            *)

\* the parks of a call with a geometry turf measures a distance to
C16_Usable(call) ==
    {i \in 1 .. Len(call.parks) :
        /\ call.parks[i].the_geom.present
        /\ ~call.parks[i].the_geom.lineThrows
        /\ ~call.parks[i].the_geom.distThrows
        /\ Len(call.parks[i].the_geom.rects) > 0}

\* the distances from the clicked point to the boundaries of those parks
C16_Distances(call) ==
    {boundaryDistance(call.lng, call.lat, call.parks[i].the_geom.rects, 2,
                      pointToLineDistance(call.lng, call.lat, call.parks[i].the_geom.rects[1])) :
        i \in C16_Usable(call)}

C16_NearestDistance(call) == CHOOSE d \in C16_Distances(call) : \A e \in C16_Distances(call) : d <= e

\* the last step is a call that found its parcel and ran to the end of the
\* analysis
C16_Analysed == parcelOp.op = "finish" /\ parcelOp.out.path \in {"inside", "outside"}

C17_OutsideZone ==
    C16_Analysed =>
       /\ (C16_Distances(parcelOp.call) = {} \/ C16_NearestDistance(parcelOp.call) > 80)
            => /\ currentAnalysis.set
               /\ ~currentAnalysis.isInValuationZone
               /\ currentAnalysis.nearestAsset = NoAsset
               /\ currentAnalysis.valuation = NoValuation
       /\ (C16_Distances(parcelOp.call) # {} /\ C16_NearestDistance(parcelOp.call) = 80)
            => currentAnalysis.set /\ currentAnalysis.isInValuationZone

\* a parcel 0.81 miles from the only park has been analysed
C17_Witness ==
    /\ C16_Analysed
    /\ C16_Distances(parcelOp.call) # {}
    /\ C16_NearestDistance(parcelOp.call) = 81
    /\ currentAnalysis.set /\ ~currentAnalysis.isInValuationZone

\* C18: a call whose parcel fetch failed or returned no record completes
\* with error the not-found message, currentAnalysis null and loading false,
\* and has computed no distance and no valuation.
C18_NotFound ==
    (parcelOp.op = "finish" /\ parcelOp.outcome # "found")
    => /\ parcelError = NotFoundMessage
       /\ currentAnalysis = NoAnalysis
       /\ parcelLoading = FALSE
       /\ parcelOp.out.distances = 0
       /\ parcelOp.out.valuations = 0

\* C19: the premium of an analysed parcel is the one the README's table gives
\* for its distance to the nearest park: 22.3 up to 0.2 miles, 14.6 up to
\* 0.4, 7.9 up to 0.6, 2.1 up to 0.8, and no valuation beyond.
C19_Tiers ==
    (C16_Analysed /\ C16_Distances(parcelOp.call) # {})
    => LET d == C16_NearestDistance(parcelOp.call) IN
       IF d <= 80
       THEN /\ currentAnalysis.valuation.set
            /\ currentAnalysis.valuation.premium = DePaulTable(d)
       ELSE ~currentAnalysis.isInValuationZone
----------------------------------------------------------------------------
(* Application start-up: properties                                        *)

\* C20: no call of analyzeIsochrone is made before onMounted is through with
\* generateAllBuffers for the parks that were loaded, and generateAllBuffers
\* is called only when the fetches of loadParks and loadCommunityAreas have
\* both settled.
C20_Ordering ==
    /\ \A r \in isoRuns : r.pc = "done"
    /\ generatedAt.ran =>
          generatedAt.parksFetch = "settled" /\ generatedAt.areasFetch = "settled"
\* nothing is suspended: onMounted is through, no fetch is pending, no loop
\* of ensureCriticalAreaStates waits for its timer
C21_Quiescent ==
    /\ appPc = "done"
    /\ parksFetch = "settled" /\ areasFetch = "settled"
    /\ ~criticalComputationInProgress

\* C21: once the system is quiescent the buffer collection holds exactly the
\* buffers of the parks that parks.value holds, after a later completion of
\* loadParks too.
C21_Regenerated == C21_Quiescent => buffers = forEachPark(appParks, 1, << >>)
----------------------------------------------------------------------------
(* Boundary index: properties of its upkeep                                *)

\* C22: when setupLayers has processed a change of the park list, the count
\* of the index is the number of parks and the index holds the entries of
\* the current parks and no other, also when no park is left; parks whose
\* boundary cannot be made are left out of it.
C22_Rebuilt ==
    indexOp.op = "setupLayers"
    => /\ parkBoundaryIndexCount = Len(indexParks)
       /\ parkBoundaryIndex = indexFrom(indexParks, 1, << >>)
----------------------------------------------------------------------------
(* Coverage estimator: its cache entries                                   *)

\* the last two calls were made for the same area and the same number of
\* buffers, the first of them missed the cache, and cache.set did not fail
C23_MissThenSame ==
    /\ isoCalls = 2
    /\ isoPrev.out.path # "cached"
    /\ ~isoPrev.setFailed
    /\ isoOp.area.area_numbe = isoPrev.area.area_numbe
    /\ Len(isoOp.parkBuffers) = Len(isoPrev.parkBuffers)

\* the last call was a cache hit that gave what the call before had returned
\* and computed nothing
C23_HitOfPrevious ==
    /\ isoOp.out.path = "cached"
    /\ isoOp.out.hits = 1 /\ isoOp.out.misses = 0
    /\ isoOp.out.result = isoPrev.out.result
    /\ isoOp.out.gridCalls = 0
    /\ isoOp.out.pointsTested = 0

\* the entry under GEOMETRIC_CALC / bufcov-<area_numbe>-<length> of a call
C23_Entry(op) ==
    store[generateKey("GEOMETRIC_CALC",
                      cacheKey(op.area.area_numbe, Len(op.parkBuffers)))]

\* C23 as stated: on a miss every result, each fallback included, is in the
\* cache under its key when it is returned, and the next call for the same
\* area and buffer count is a hit that returns the same result.
C23_EveryResultCached ==
    /\ (isoOp.out.path \notin {"none", "cached"} /\ ~isoOp.setFailed)
        => /\ IsEntry(C23_Entry(isoOp))
           /\ C23_Entry(isoOp).data = stringify(isoOp.out.result)
    /\ C23_MissThenSame => C23_HitOfPrevious

\* C23, amended: the same for every result but the fallback of the catch
\* block (an area without geometry or of planar area 0), which is returned
\* without being cached and is made again by the next call.
C23_ResultCached ==
    /\ (isoOp.out.path \notin {"none", "cached", "caught"} /\ ~isoOp.setFailed)
        => /\ IsEntry(C23_Entry(isoOp))
           /\ C23_Entry(isoOp).data = stringify(isoOp.out.result)
    /\ (C23_MissThenSame /\ isoPrev.out.path # "caught") => C23_HitOfPrevious
    /\ (C23_MissThenSame /\ isoPrev.out.path = "caught")
        => /\ isoOp.out.path = "caught"
           /\ isoOp.out.result = isoPrev.out.result

\* a coverage that was computed and cached is returned by the next call
C23_Witness ==
    /\ C23_MissThenSame
    /\ isoPrev.out.path = "computed"
    /\ isoPrev.out.insideCount > 0
    /\ C23_HitOfPrevious
\* the last two calls were made for the same area, and the first of them
\* computed and stored its result
C24_StoredThenSameArea ==
    /\ isoCalls = 2
    /\ isoPrev.out.path \in {"noCandidates", "emptyGrid", "computed"}
    /\ ~isoPrev.setFailed
    /\ isoOp.area.area_numbe = isoPrev.area.area_numbe

\* what the last call would have computed without any cache entry
C24_Fresh ==
    analyzeIsochrone(isoOp.area, isoOp.parkBuffers, [k \in AllKeys |-> NoItem], now,
                     FALSE, FALSE, FALSE).result

\* C24: the key holds the number of buffers only.  A call for the same area
\* with another buffer list of the same length gets the result cached for
\* the earlier list; a call with a list of another length does not get that
\* entry: it misses and computes its own result (or, for the one key an
\* earlier session may have filled, gets that session's entry).
C24_CountOnly ==
    C24_StoredThenSameArea =>
        /\ Len(isoOp.parkBuffers) = Len(isoPrev.parkBuffers)
            => /\ isoOp.out.path = "cached"
               /\ isoOp.out.result = isoPrev.out.result
               /\ isoOp.out.pointsTested = 0
        /\ Len(isoOp.parkBuffers) # Len(isoPrev.parkBuffers)
            => \/ /\ isoOp.out.path # "cached"
                  /\ isoOp.out.misses = 1
                  /\ isoOp.out.result = C24_Fresh
               \/ /\ isoOp.out.path = "cached"
                  /\ isoOp.area.area_numbe = "8" /\ Len(isoOp.parkBuffers) = 1
                  /\ isoOp.out.result = coverageResult(GridPoints, GridPoints)

\* another list of the same length got a result that is not its own
C24_Witness ==
    /\ C24_StoredThenSameArea
    /\ Len(isoOp.parkBuffers) = Len(isoPrev.parkBuffers)
    /\ isoOp.parkBuffers # isoPrev.parkBuffers
    /\ isoOp.out.path = "cached"
    /\ isoOp.out.result # C24_Fresh

\* a list of another length was computed afresh, with another result
C24_WitnessAfresh ==
    /\ C24_StoredThenSameArea
    /\ Len(isoOp.parkBuffers) # Len(isoPrev.parkBuffers)
    /\ isoOp.out.path = "computed"
    /\ isoOp.out.result # isoPrev.out.result
----------------------------------------------------------------------------
(* Cache store: eviction                                                   *)

\* a text under a key that is an entry past its TTL or no entry at all
C25_ExpiredOrUnparseable(raw, t) == raw # NoItem /\ ~isValid(raw, t)

\* a step of get on an entry past its TTL removes the entry and nothing else
C25_GetStep ==
    (lastOp'.op = "get" /\ ops' = ops + 1 /\ C25_ExpiredOrUnparseable(store[lastOp'.key], now)
        /\ IsEntry(store[lastOp'.key]))
    => store' = [store EXCEPT ![lastOp'.key] = NoItem]

\* a step of clearExpired removes the keys of the app prefix that hold an
\* expired or unparseable text and leaves every other key as it was
C25_SweepStep ==
    (lastOp'.op = "clearExpired" /\ ops' = ops + 1)
    => \A k \in DOMAIN store :
          store'[k] = IF startsWithAppPrefix(k) /\ C25_ExpiredOrUnparseable(store[k], now)
                      THEN NoItem ELSE store[k]

\* C25: get of an expired entry removes it; clearExpired removes every
\* expired or unparseable entry under the app prefix, in every namespace, and
\* leaves the valid entries and the keys without the prefix unchanged.
C25_Eviction == [][C25_GetStep /\ C25_SweepStep]_vars

\* the part of C25 about get alone
C25_LazyEviction == [][C25_GetStep]_vars

\* the sweep, an empty text under an app key left aside
C25_SweepButEmpty ==
    [][(lastOp'.op = "clearExpired" /\ ops' = ops + 1)
       => \A k \in DOMAIN store :
             store'[k] = IF startsWithAppPrefix(k) /\ C25_ExpiredOrUnparseable(store[k], now)
                            /\ store[k] # EmptyText
                         THEN NoItem ELSE store[k]]_vars
----------------------------------------------------------------------------
(* Application start-up: the community areas                               *)

\* what is under COMMUNITY_AREAS / 'all'
C26_Stored == store[generateKey("COMMUNITY_AREAS", "all")]

C26_WitnessFailed ==
    /\ areasOp.path = "failed"
    /\ appPc = "done"
    /\ C26_Stored = NoItem
----------------------------------------------------------------------------
(* Parcel evaluator: overlapping calls                                     *)

\* C27: when calls of analyzeParcel overlap, currentAnalysis and error end as
\* the most recently started call set them: the completion of an earlier
\* click does not overwrite the outcome of a later one.
C27_LatestWins ==
    (inFlight = {} /\ parcelOp.op = "finish" /\ latest.done)
    => /\ currentAnalysis = latest.currentAnalysis
       /\ parcelError = latest.error

\* C28: error and currentAnalysis are never both set.
C28_Exclusive == ~(parcelError # JsNull /\ currentAnalysis.set)

\* C29: loading is true whenever a call of analyzeParcel has started and has
\* not completed.
C29_LoadingWhileInFlight == inFlight # {} => parcelLoading

\* the other half of C29: when no call is left, loading is false
C29_CompletedNotLoading == (inFlight = {} /\ started > 0) => ~parcelLoading
----------------------------------------------------------------------------
(* Critical areas: the loop of ensureCriticalAreaStates                    *)

\* at most one loop is active, the flag is set exactly while one is, and the
\* feature states follow the threshold
C30_OneLoop ==
    /\ activeLoops \in {0, 1}
    /\ criticalComputationInProgress <=> activeLoops = 1
    /\ ~(criticalStatesComputed /\ criticalComputationInProgress)
    /\ \A a \in AreaNumbers :
          /\ critical[a] # "unset" => criticalOutside[a] # ""
          /\ critical[a] = "true"  => parseFloat(criticalOutside[a]) >= 300
          /\ critical[a] = "false" => parseFloat(criticalOutside[a]) < 300
    /\ criticalStatesComputed
        => \A i \in 1 .. Len(communityAreas) :
              critical[communityAreas[i].area_numbe] # "unset"

\* once a loop has completed, no later call evaluates an area or sets a
\* feature state again
C30_OneShot ==
    criticalStatesComputed
    => /\ criticalStatesComputed'
       /\ mapStats' = mapStats
       /\ critical' = critical

\* C30: at most one loop of ensureCriticalAreaStates is active at a time;
\* criticalComputationInProgress is false whenever none is, also after a
\* loop that ended with an exception; every area the loop has flagged is
\* flagged critical exactly when its outside percentage is 30 or more; once
\* a loop has completed, no later call computes again.
C30_ExclusiveOneShot == []C30_OneLoop /\ [][C30_OneShot]_vars

\* a loop has completed after one that ended with an exception, and it has
\* found areas on both sides of the threshold
C30_Witness ==
    /\ criticalStatesComputed
    /\ activeLoops = 0
    /\ mapStats.gets > Len(communityAreas)
    /\ \E a, b \in AreaNumbers : critical[a] = "true" /\ critical[b] = "false"

\* a loop stands at its await and the layer is switched again
C30_WitnessSuspended ==
    /\ criticalComputationInProgress
    /\ activeLoops = 1
    /\ events = MaxEvents
    /\ ~layers["critical-areas"]
====
